---- MODULE Spec2Model ----
(***************************************************************************)
(* Model of the speaker-aware dynamic-crop pipeline of                     *)
(* src/src/core/viral_clipper_complete.py (class ViralClipGenerator).      *)
(*                                                                         *)
(* Conventions                                                             *)
(*  - Python lists are sequences; Python index k is TLA+ index k+1.        *)
(*  - Times (seconds) are Python floats in the source.  They are modelled  *)
(*    as exact rationals <<n, d>> in lowest terms with d > 0, so the       *)
(*    arithmetic of the model is the real-number arithmetic the float      *)
(*    code approximates; rounding in the last unit of a double is below    *)
(*    the resolution of the model.                                         *)
(*  - Pixel quantities are integers, as in the source (int(...), //).      *)
(***************************************************************************)
EXTENDS Integers, Sequences, FiniteSets, TLC

(***************************************************************************)
(* Bounds of the model (not program constants).                            *)
(***************************************************************************)
\* durations range over the half seconds 0.5, 1.0, ..., MaxDuration
MaxDuration == 26
\* longest list of filtered detections handed to the clusterer
MaxFaces == 3
\* at most this many per-segment files are found missing in one assembly
MaxMissing == 1
\* longest cue text written to a caption file (characters)
MaxTextLen == 2
\* most cues of a transcript
MaxCues == 2
\* most caption-update requests made for the job
MaxRequests == 2
\* most pipeline invocations running at the same time
MaxRuns == 2
\* most segments an invocation renders
MaxSegments == 2
\* most detections of a crowded picture (four faces far apart and more)
MaxCrowd == 5
\* most segments of the transcript of the analysis audio
MaxTranscript == 12
\* most raw boxes the cascades find in the sampled frames
MaxRaw == 2
\* most clips a job asks for, and most segments the analyzer suggests
MaxClips == 3
\* face centres tried by the crop geometry: k/CropSteps of the source width
CropSteps == 8

(***************************************************************************)
(* Arithmetic helpers.                                                     *)
(***************************************************************************)
Abs(a) == IF a < 0 THEN -a ELSE a

Min2(a, b) == IF a <= b THEN a ELSE b

Max2(a, b) == IF a >= b THEN a ELSE b

\* Python int(a / b) for b > 0: truncation toward zero
IntTrunc(a, b) == IF a >= 0 THEN a \div b ELSE -((-a) \div b)

RECURSIVE GCD(_, _)
GCD(a, b) == IF b = 0 THEN a ELSE GCD(b, a % b)

\* the rational n/d (d # 0) in lowest terms with positive denominator
Rat(n, d) ==
    LET g == GCD(Abs(n), Abs(d))
        s == IF d < 0 THEN -1 ELSE 1
    IN  <<(s * n) \div g, (s * d) \div g>>

RInt(k) == <<k, 1>>

RAdd(p, q) == Rat(p[1] * q[2] + q[1] * p[2], p[2] * q[2])

RSub(p, q) == Rat(p[1] * q[2] - q[1] * p[2], p[2] * q[2])

RMulInt(p, k) == Rat(p[1] * k, p[2])

RDivInt(p, k) == Rat(p[1], p[2] * k)

RLeq(p, q) == p[1] * q[2] <= q[1] * p[2]

RLess(p, q) == p[1] * q[2] < q[1] * p[2]

\* Python int(p / q) for rationals p, q with q > 0
RIntDiv(p, q) == IntTrunc(p[1] * q[2], p[2] * q[1])

RECURSIVE RSum(_)
RSum(s) == IF s = <<>> THEN RInt(0) ELSE RAdd(s[1], RSum(Tail(s)))

\* [x] * n
Repeat(x, n) == [k \in 1..n |-> x]

(***************************************************************************)
(* Crop Geometry: calculate_crop_zone, create_default_speakers.            *)
(***************************************************************************)
target_width == 1080

target_height == 1920

\* int(video_width * (target_height / video_height))
ScaledWidth(video_width, video_height) ==
    IntTrunc(video_width * target_height, video_height)

\* calculate_crop_zone whose "left" branch clamps below only
calculate_crop_zone_half_clamp(face_x, face_y, video_width, video_height, position) ==
    LET scaled_width == ScaledWidth(video_width, video_height)
        scaled_face_x == IntTrunc(face_x * target_height, video_height)
        room == scaled_width - target_width
        crop_x ==
            IF scaled_width <= target_width THEN 0
            ELSE CASE position = "center" ->
                        Max2(0, Min2((scaled_face_x - target_width \div 2)
                                        - IntTrunc(target_width * 5, 100), room))
                   [] position = "left" ->
                        Max2(0, scaled_face_x - IntTrunc(target_width * 6, 10))
                   [] position = "right" ->
                        Max2(0, Min2(scaled_face_x - IntTrunc(target_width * 4, 10), room))
                   [] OTHER -> room \div 2
    IN  <<crop_x, 0, target_width, target_height>>

\* calculate_crop_zone that keeps the scaled width of a narrow source
calculate_crop_zone_narrow_width(face_x, face_y, video_width, video_height, position) ==
    LET scaled_width == ScaledWidth(video_width, video_height)
        scaled_face_x == IntTrunc(face_x * target_height, video_height)
        room == scaled_width - target_width
    IN  IF scaled_width <= target_width
        THEN <<0, 0, scaled_width, target_height>>
        ELSE <<Max2(0, Min2((scaled_face_x - target_width \div 2)
                               - IntTrunc(target_width * 5, 100), room)),
               0, target_width, target_height>>

calculate_crop_zone(face_x, face_y, video_width, video_height, position) ==
    LET scaled_width == ScaledWidth(video_width, video_height)
        scaled_face_x == IntTrunc(face_x * target_height, video_height)
        room == scaled_width - target_width
        crop_x ==
            IF scaled_width <= target_width THEN 0
            ELSE CASE position = "center" ->
                        LET ideal_crop_x == (scaled_face_x - target_width \div 2)
                                            - IntTrunc(target_width * 5, 100)
                        IN  Max2(0, Min2(ideal_crop_x, room))
                   [] position = "left" ->
                        LET ideal_crop_x == scaled_face_x - IntTrunc(target_width * 6, 10)
                        IN  Max2(0, Min2(ideal_crop_x, room))
                   [] position = "right" ->
                        LET ideal_crop_x == scaled_face_x - IntTrunc(target_width * 4, 10)
                        IN  Max2(0, Min2(ideal_crop_x, room))
                   [] OTHER -> room \div 2
    IN  <<crop_x, 0, target_width, target_height>>

\* dataclass Speaker
Speaker(id, face_box, center_x, center_y, crop_zone) ==
    [id |-> id, face_box |-> face_box, center_x |-> center_x,
     center_y |-> center_y, crop_zone |-> crop_zone]

create_default_speakers(width, height) ==
    LET center_crop == calculate_crop_zone(width \div 2, height \div 2, width, height, "center")
    IN  << Speaker(0, <<width \div 2 - 100, height \div 2 - 100, 200, 200>>,
                   width \div 2, height \div 2, center_crop) >>

(***************************************************************************)
(* Sample Planner: estimate_speakers_from_segments, the sample points of   *)
(* detect_speakers_with_smart_sampling, get_smart_sample_points.           *)
(***************************************************************************)
\* the estimated number of speakers of a transcript; a segment is a record
\* with the rationals start and end
estimate_speakers_from_segments(transcript) ==
    IF transcript = <<>> THEN 1
    ELSE LET segment_lengths == [k \in 1..Len(transcript) |->
                                    RSub(transcript[k].end, transcript[k].start)]
             avg_length == RDivInt(RSum(segment_lengths), Len(segment_lengths))
         IN  IF RLess(avg_length, RInt(5)) /\ Len(transcript) > 3 THEN 2
             ELSE IF Len(transcript) > 10 /\ RLess(avg_length, RInt(3)) THEN 3
             ELSE 1

\* sorted(list(set(points))): the points in ascending order
SortedPoints(points) ==
    [r \in 1..Cardinality(points) |->
        CHOOSE p \in points : Cardinality({q \in points : RLess(q, p)}) = r - 1]

\* get_smart_sample_points without the sample at the expected transition
get_smart_sample_points_around_only(clip_duration, estimated_speakers, num_samples, random_points) ==
    LET avg_switch_time == IF estimated_speakers = 2 THEN 5 ELSE 3
        turns == IF clip_duration[1] <= 0 THEN 0
                 ELSE (clip_duration[1] \div clip_duration[2]) \div avg_switch_time + 1
        around == {RAdd(RInt(k * avg_switch_time), offset) :
                      k \in {j \in 0..turns : RLess(RInt(j * avg_switch_time), clip_duration)},
                      offset \in {Rat(-1, 2), Rat(1, 2)}}
        all == SortedPoints({p \in around : RLeq(RInt(0), p) /\ RLess(p, clip_duration)}
                                \cup random_points)
    IN  SubSeq(all, 1, Min2(num_samples, Len(all)))

\* get_smart_sample_points; random_points are the values random.uniform gave
get_smart_sample_points(clip_duration, estimated_speakers, num_samples, random_points) ==
    LET avg_switch_time == IF estimated_speakers = 2 THEN 5 ELSE 3
        turns == IF clip_duration[1] <= 0 THEN 0
                 ELSE (clip_duration[1] \div clip_duration[2]) \div avg_switch_time + 1
        around == {RAdd(RInt(k * avg_switch_time), offset) :
                      k \in {j \in 0..turns : RLess(RInt(j * avg_switch_time), clip_duration)},
                      offset \in {Rat(-1, 2), RInt(0), Rat(1, 2)}}
        all == SortedPoints({p \in around : RLeq(RInt(0), p) /\ RLess(p, clip_duration)}
                                \cup random_points)
    IN  SubSeq(all, 1, Min2(num_samples, Len(all)))

\* lines 261-271 of detect_speakers_with_smart_sampling
sample_points(clip_duration, estimated_speakers, random_points) ==
    IF estimated_speakers = 1
    THEN [k \in 1..15 |-> RDivInt(RMulInt(clip_duration, k - 1), 15)]
    ELSE get_smart_sample_points(clip_duration, estimated_speakers,
                                 Min2(30, Max2(20, estimated_speakers * 10)),
                                 random_points)

(***************************************************************************)
(* Face Detector: the filters of detect_faces_at_frames,                   *)
(* detect_faces_enhanced and detect_speakers; a raw box is <<x, y, w, h>>. *)
(***************************************************************************)
\* the detections built from the raw boxes that pass `Keep`
RECURSIVE FilteredFaces(_, _, _, _)
FilteredFaces(raw, keep, width, height) ==
    IF raw = <<>> THEN <<>>
    ELSE LET box == Head(raw)
             rest == FilteredFaces(Tail(raw), keep, width, height)
         IN  IF box \in keep
             THEN <<[x |-> box[1], y |-> box[2], w |-> box[3], h |-> box[4],
                     center_x |-> box[1] + box[3] \div 2,
                     center_y |-> box[2] + box[4] \div 2,
                     area |-> box[3] * box[4],
                     face_area_ratio |-> Rat(box[3] * box[4], width * height)]>> \o rest
             ELSE rest

\* lines 353-365: the names of the detection passes, in the order tried
detection_passes(estimated_speakers) ==
    IF estimated_speakers = 1
    THEN <<"frontal-single", "frontal-relaxed">>
    ELSE <<"frontal-optimized", "frontal-aggressive", "profile", "frontal-relaxed">>

\* PassLoop that stops at the first pass that found a face (the rule of
\* detect_speakers, line 505)
RECURSIVE PassLoop_first_hit(_, _, _, _, _)
PassLoop_first_hit(passes, finds, estimated_speakers, p, frame_faces) ==
    IF p > Len(passes) \/ Len(frame_faces) > 0
    THEN [ran |-> SubSeq(passes, 1, p - 1), frame_faces |-> frame_faces]
    ELSE PassLoop_first_hit(passes, finds, estimated_speakers, p + 1,
                  frame_faces \o [k \in 1..finds[p] |-> <<passes[p], k>>])

\* lines 378-391: the passes tried on one frame from pass p on; finds[p] is
\* the number of boxes pass p returns for the frame, box k of a pass is
\* <<name of the pass, k>>
RECURSIVE PassLoop(_, _, _, _, _)
PassLoop(passes, finds, estimated_speakers, p, frame_faces) ==
    IF p > Len(passes) \/ Len(frame_faces) >= estimated_speakers
    THEN [ran |-> SubSeq(passes, 1, p - 1), frame_faces |-> frame_faces]
    ELSE PassLoop(passes, finds, estimated_speakers, p + 1,
                  frame_faces \o [k \in 1..finds[p] |-> <<passes[p], k>>])

\* detect_faces_at_frames without the minimum edge length of lines 399-400
detect_faces_at_frames_any_edge(raw, width, height, estimated_speakers) ==
    LET min_ratio == IF estimated_speakers > 1 THEN 3 ELSE 5
        \* the least minSize of the detection passes (lines 353-365)
        minSize == IF estimated_speakers = 1 THEN 100 ELSE 60
        Keep(w, h) ==
            /\ w >= minSize /\ h >= minSize
            /\ min_ratio * width * height < 100 * w * h /\ 2 * w * h < width * height
            /\ h < 2 * w /\ w < 2 * h
    IN  FilteredFaces(raw, {b \in {raw[k] : k \in 1..Len(raw)} : Keep(b[3], b[4])},
                      width, height)

\* lines 393-410 of detect_faces_at_frames: min_ratio < face_area_ratio < 0.5,
\* 0.5 < w / h < 2.0, w >= min_size and h >= min_size
detect_faces_at_frames(raw, width, height, estimated_speakers) ==
    LET min_ratio == IF estimated_speakers > 1 THEN 3 ELSE 5
        \* the least minSize of the detection passes (lines 353-365)
        minSize == IF estimated_speakers = 1 THEN 100 ELSE 60
        min_size == IF estimated_speakers = 1 THEN 120 ELSE 100
        Keep(w, h) ==
            /\ w >= minSize /\ h >= minSize
            /\ min_ratio * width * height < 100 * w * h /\ 2 * w * h < width * height
            /\ h < 2 * w /\ w < 2 * h
            /\ w >= min_size /\ h >= min_size
    IN  FilteredFaces(raw, {b \in {raw[k] : k \in 1..Len(raw)} : Keep(b[3], b[4])},
                      width, height)

\* lines 441-451 of detect_faces_enhanced: 0.02 < face_area_ratio < 0.6
detect_faces_enhanced(raw, width, height) ==
    LET Keep(w, h) ==
            \* minSize=(50, 50) of the cascade (line 438)
            /\ w >= 50 /\ h >= 50
            /\ 2 * width * height < 100 * w * h /\ 10 * w * h < 6 * width * height
    IN  FilteredFaces(raw, {b \in {raw[k] : k \in 1..Len(raw)} : Keep(b[3], b[4])},
                      width, height)

\* lines 525-541 of detect_speakers: 0.05 < face_area_ratio < 0.5,
\* 0.5 < w / h < 2.0, w >= 150 and h >= 150
detect_speakers_faces(raw, width, height) ==
    LET Keep(w, h) ==
            \* the least minSize of the detection passes (lines 486-495)
            /\ w >= 60 /\ h >= 60
            /\ 5 * width * height < 100 * w * h /\ 2 * w * h < width * height
            /\ h < 2 * w /\ w < 2 * h
            /\ w >= 150 /\ h >= 150
    IN  FilteredFaces(raw, {b \in {raw[k] : k \in 1..Len(raw)} : Keep(b[3], b[4])},
                      width, height)

(***************************************************************************)
(* Speaker Clusterer: improved_face_clustering, cluster_faces_into_speakers*)
(***************************************************************************)
\* a filtered detection as built by detect_faces_at_frames; face_area_ratio
\* is the rational (w*h) / (width*height)
Face(x, y, w, h, width, height) ==
    [x |-> x, y |-> y, w |-> w, h |-> h,
     center_x |-> x + w \div 2, center_y |-> y + h \div 2,
     area |-> w * h, face_area_ratio |-> Rat(w * h, width * height)]

\* face['face_size'] = face['w'] * face['h']
face_size(face) == face.w * face.h

\* number of faces that sorted(..., reverse=True) puts before faces[i]:
\* the sort is stable, so equal sizes keep their list order
SortRank(faces, i) ==
    Cardinality({k \in 1..Len(faces) :
        \/ face_size(faces[k]) > face_size(faces[i])
        \/ face_size(faces[k]) = face_size(faces[i]) /\ k < i})

\* sorted_faces that leaves the detections in list order
sorted_faces_unsorted(faces) == [r \in 1..Len(faces) |-> r]

\* sorted(enumerate(faces), key=face_size, reverse=True), as list positions
sorted_faces(faces) ==
    [r \in 1..Len(faces) |-> CHOOSE i \in 1..Len(faces) : SortRank(faces, i) = r - 1]

\* SpatiallyClose that compares the horizontal distance only
SpatiallyClose_x_only(face, other_face, width, height) ==
    100 * Abs(face.center_x - other_face.center_x) < 15 * width

\* x_dist < spatial_threshold and y_dist < spatial_threshold, with
\* normalized_x = center_x / width and spatial_threshold = 0.15
SpatiallyClose(face, other_face, width, height) ==
    /\ 100 * Abs(face.center_x - other_face.center_x) < 15 * width
    /\ 100 * Abs(face.center_y - other_face.center_y) < 15 * height

\* SizeSimilar with the comparison inverted
SizeSimilar_inverted(face, other_face) ==
    10 * Min2(face_size(face), face_size(other_face))
        < 4 * Max2(face_size(face), face_size(other_face))

\* size_ratio = min(a, b) / max(a, b) > 0.4
SizeSimilar(face, other_face) ==
    10 * Min2(face_size(face), face_size(other_face))
        > 4 * Max2(face_size(face), face_size(other_face))

\* the outer loop of improved_face_clustering from position pos of the
\* sorted list on; a cluster is the list of positions (in faces) of its members
RECURSIVE ClusterLoop(_, _, _, _, _, _, _)
ClusterLoop(faces, width, height, sorted, pos, used_indices, clusters) ==
    IF pos > Len(sorted) THEN clusters
    ELSE LET idx == sorted[pos] IN
         IF idx \in used_indices
         THEN ClusterLoop(faces, width, height, sorted, pos + 1, used_indices, clusters)
         ELSE LET Absorbed(other_idx) ==
                      /\ other_idx \notin used_indices \cup {idx}
                      /\ SpatiallyClose(faces[idx], faces[other_idx], width, height)
                      /\ SizeSimilar(faces[idx], faces[other_idx])
                  cluster == <<idx>> \o SelectSeq(sorted, Absorbed)
              IN  ClusterLoop(faces, width, height, sorted, pos + 1,
                              used_indices \cup {cluster[k] : k \in 1..Len(cluster)},
                              Append(clusters, cluster))

improved_face_clustering(faces, width, height) ==
    IF faces = <<>> THEN <<>>
    ELSE ClusterLoop(faces, width, height, sorted_faces(faces), 1, {}, <<>>)

\* valid_clusters without the filter of lines 590-596: every cluster passes
ValidClusters_unfiltered(faces, clusters) == clusters

\* valid_clusters of cluster_faces_into_speakers
ValidClusters(faces, clusters) ==
    LET IsValid(cluster) ==
            \/ Len(cluster) >= 2
            \/ /\ Len(cluster) = 1
               /\ RLess(<<1, 10>>, faces[cluster[1]].face_area_ratio)
        valid_clusters == SelectSeq(clusters, IsValid)
    IN  IF valid_clusters = <<>> THEN clusters ELSE valid_clusters

RECURSIVE SumOver(_)
\* sum(...) over the members of a cluster, given the summands in order
SumOver(values) ==
    IF values = <<>> THEN 0
    ELSE Head(values) + SumOver(Tail(values))

\* the Speaker built from one cluster (loop body, lines 604-627)
ClusterSpeaker(i, faces, cluster, width, height) ==
    LET center_x == width \div 2
        WX(f) == f.center_x * face_size(f)
        WY(f) == f.center_y * face_size(f)
        total_weight == SumOver([k \in 1..Len(cluster) |-> face_size(faces[cluster[k]])])
        avg_x == SumOver([k \in 1..Len(cluster) |-> WX(faces[cluster[k]])]) \div total_weight
        avg_y == SumOver([k \in 1..Len(cluster) |-> WY(faces[cluster[k]])]) \div total_weight
        position == IF 100 * Abs(avg_x - center_x) < 15 * width THEN "center"
                    ELSE IF avg_x < center_x THEN "left" ELSE "right"
    IN  Speaker(i, <<avg_x - 100, avg_y - 100, 200, 200>>, avg_x, avg_y,
                calculate_crop_zone(avg_x, avg_y, width, height, position))

\* numerator of the sort key over the common denominator 2*width*height:
\* (|center_x - width//2| / width) * 0.5 + (1.0 - face_box[2]*face_box[3] / (width*height)) * 0.5
SpeakerKey(s, width, height) ==
    Abs(s.center_x - width \div 2) * height
        + (width * height - s.face_box[3] * s.face_box[4])

\* speakers.sort(key=...) followed by the re-assignment of ids: stable, ascending
SortSpeakers(speakers, width, height) ==
    LET n == Len(speakers)
        Rank(i) == Cardinality({k \in 1..n :
                      \/ SpeakerKey(speakers[k], width, height) < SpeakerKey(speakers[i], width, height)
                      \/ /\ SpeakerKey(speakers[k], width, height) = SpeakerKey(speakers[i], width, height)
                         /\ k < i})
    IN  [r \in 1..n |->
            LET s == speakers[CHOOSE i \in 1..n : Rank(i) = r - 1]
            IN  [s EXCEPT !.id = r - 1]]

\* cluster_faces_into_speakers that keeps the last three valid clusters
cluster_faces_into_speakers_last_three(faces, width, height) ==
    IF faces = <<>> THEN create_default_speakers(width, height)
    ELSE LET clusters == improved_face_clustering(faces, width, height)
             valid_clusters == ValidClusters(faces, clusters)
             kept == SubSeq(valid_clusters, Max2(1, Len(valid_clusters) - 2),
                            Len(valid_clusters))
             speakers == [i \in 1..Len(kept) |->
                             ClusterSpeaker(i - 1, faces, kept[i], width, height)]
             sorted == SortSpeakers(speakers, width, height)
         IN  IF sorted # <<>> THEN sorted ELSE create_default_speakers(width, height)

cluster_faces_into_speakers(faces, width, height) ==
    IF faces = <<>> THEN create_default_speakers(width, height)
    ELSE LET clusters == improved_face_clustering(faces, width, height)
             valid_clusters == ValidClusters(faces, clusters)
             kept == SubSeq(valid_clusters, 1, Min2(3, Len(valid_clusters)))
             speakers == [i \in 1..Len(kept) |->
                             ClusterSpeaker(i - 1, faces, kept[i], width, height)]
             sorted == SortSpeakers(speakers, width, height)
         IN  IF sorted # <<>> THEN sorted ELSE create_default_speakers(width, height)

(***************************************************************************)
(* Segment Scheduler: calculate_segments and the per-segment speaker       *)
(* choice of create_viral_clip_with_speaker_switching.                     *)
(***************************************************************************)
\* calculate_segments without the final remainder segment
calculate_segments_no_remainder(total_duration, speakers_count) ==
    IF speakers_count = 1 THEN <<total_duration>>
    ELSE LET segment_duration == IF speakers_count = 2 THEN RInt(6) ELSE RInt(4)
             full_segments == RIntDiv(total_duration, segment_duration)
             remaining_time == RSub(total_duration, RMulInt(segment_duration, full_segments))
         IN  IF full_segments = 0 THEN <<total_duration>>
             ELSE IF RLeq(remaining_time, RInt(1))
                  THEN Repeat(RDivInt(total_duration, full_segments), full_segments)
                  ELSE Repeat(segment_duration, full_segments)

\* calculate_segments with remaining_time < 1.0 in place of <= 1.0
calculate_segments_strict(total_duration, speakers_count) ==
    IF speakers_count = 1 THEN <<total_duration>>
    ELSE LET segment_duration == IF speakers_count = 2 THEN RInt(6) ELSE RInt(4)
             full_segments == RIntDiv(total_duration, segment_duration)
             remaining_time == RSub(total_duration, RMulInt(segment_duration, full_segments))
         IN  IF full_segments = 0 THEN <<total_duration>>
             ELSE IF RLess(remaining_time, RInt(1))
                  THEN Repeat(RDivInt(total_duration, full_segments), full_segments)
                  ELSE Append(Repeat(segment_duration, full_segments), remaining_time)

\* calculate_segments without the single-speaker case
calculate_segments_always_cut(total_duration, speakers_count) ==
    LET segment_duration == IF speakers_count = 2 THEN RInt(6) ELSE RInt(4)
        full_segments == RIntDiv(total_duration, segment_duration)
        remaining_time == RSub(total_duration, RMulInt(segment_duration, full_segments))
    IN  IF full_segments = 0 THEN <<total_duration>>
        ELSE IF RLeq(remaining_time, RInt(1))
             THEN Repeat(RDivInt(total_duration, full_segments), full_segments)
             ELSE Append(Repeat(segment_duration, full_segments), remaining_time)

calculate_segments(total_duration, speakers_count) ==
    IF speakers_count = 1 THEN <<total_duration>>
    ELSE LET segment_duration == IF speakers_count = 2 THEN RInt(6) ELSE RInt(4)
             full_segments == RIntDiv(total_duration, segment_duration)
             remaining_time == RSub(total_duration, RMulInt(segment_duration, full_segments))
         IN  IF full_segments = 0 THEN <<total_duration>>
             ELSE IF RLeq(remaining_time, RInt(1))
                  THEN Repeat(RDivInt(total_duration, full_segments), full_segments)
                  ELSE Append(Repeat(segment_duration, full_segments), remaining_time)

\* SegmentSpeaker as a plain round-robin over the speakers
SegmentSpeaker_round_robin(i, speakers) == speakers[(i % Len(speakers)) + 1]

\* the speaker whose crop zone segment i (0-based) is rendered with
SegmentSpeaker(i, speakers) ==
    IF Len(speakers) = 1 THEN speakers[1]
    ELSE IF i = 0 \/ (i % 3) = 0 THEN speakers[1]
    ELSE LET speaker_idx == ((i \div 3) % (Len(speakers) - 1)) + 1
         IN  speakers[Min2(speaker_idx, Len(speakers) - 1) + 1]

(***************************************************************************)
(* Inputs.                                                                 *)
(***************************************************************************)
\* the clip durations tried: 0.5 s, 1 s, ..., MaxDuration s
Durations == {Rat(k, 2) : k \in 1..(2 * MaxDuration)}

\* start offsets: the start of the video, a caller-chosen offset and the
\* first of the fallback_times of generate_viral_clip
StartTimes == {RInt(0), Rat(25, 2), RInt(180)}

\* the source video of the pipeline runs (16:9, 720p)
Frame == [width |-> 1280, height |-> 720]

\* detections (x, y, w, h) in a Frame-sized picture: a large central face,
\* faces 140 px to its right and left (within 15% of the width of their
\* neighbour, beyond 15% of each other), a face further right, a small face
\* at the centre (size ratio under 0.4), a medium face on the left, a
\* central face lower in the picture (beyond 15% of the height) and a large
\* face 60 px right of the centre
FaceBoxes ==
    { Face(480, 190, 320, 320, Frame.width, Frame.height),
      Face(640, 210, 280, 280, Frame.width, Frame.height),
      Face(360, 210, 280, 280, Frame.width, Frame.height),
      Face(780, 210, 280, 280, Frame.width, Frame.height),
      Face(575, 275, 150, 150, Frame.width, Frame.height),
      Face(200, 250, 200, 200, Frame.width, Frame.height),
      Face(490, 350, 300, 300, Frame.width, Frame.height),
      Face(540, 190, 320, 320, Frame.width, Frame.height) }

\* detections of a crowded picture: large faces at the centre, on the left
\* and on the right (each over 10% of the frame area) and two detections of
\* a smaller face above the centre, which cluster together
CrowdBoxes ==
    { Face(480, 240, 320, 320, Frame.width, Frame.height),
      Face(145, 245, 310, 310, Frame.width, Frame.height),
      Face(825, 245, 310, 310, Frame.width, Frame.height),
      Face(525, 15, 230, 230, Frame.width, Frame.height),
      Face(528, 18, 225, 225, Frame.width, Frame.height) }

\* every list of at most MaxFaces filtered detections
FaceLists == UNION {[1..n -> FaceBoxes] : n \in 0..MaxFaces}

\* the detections of the pipeline runs: a central face, a face on the right
\* and a face on the left, each under 10% of the frame area
PipelineFaceLists ==
    LET boxes == { Face(490, 210, 300, 300, Frame.width, Frame.height),
                   Face(780, 210, 280, 280, Frame.width, Frame.height),
                   Face(200, 250, 200, 200, Frame.width, Frame.height) }
    IN  UNION {[1..n -> boxes] : n \in 0..MaxFaces}

(***************************************************************************)
(* State.                                                                  *)
(***************************************************************************)
VARIABLES
    pc,                \* position of the pipeline invocation
    entry,             \* the method the caller invoked
    start_time,        \* argument start_time (seconds)
    duration,          \* argument duration (seconds)
    speakers,          \* list of Speaker handed to the assembler
    segment_durations, \* result of calculate_segments
    i,                 \* loop index of the segment loop
    current_time,      \* offset of the next segment from start_time
    segments,          \* the renders issued so far, in order (ffmpeg ss/t/crop)
    temp_segments,     \* the per-segment files found to exist after rendering
    missing,           \* number of per-segment files found missing
    files,             \* intermediate files present in clips/
    output,            \* the file at output_path
    success,           \* result of the create_* call
    clip_data,         \* result of generate_viral_clip
    call,              \* arguments of a direct call of a pure helper
    ret,               \* its return value
    detection,         \* what detect_speakers_from_segment went through
    job,               \* the ClipJob of active_jobs a caption update is about
    regen,             \* the regeneration threads started for that job
    video,             \* the file at the job's clip_data['path']
    temp_video,        \* the file at temp_ass_path
    base_video,        \* the file at the _temp_switching / _no_captions path
    subtitle,          \* the cues in the job's subtitle file
    runs,              \* concurrently running pipeline invocations
    touched            \* the paths the running invocations wrote, read or deleted

\* the state of the caption re-synchronization of a job
resyncVars == <<job, regen, video, temp_video, base_video, subtitle>>

\* the state of the concurrently running invocations
runVars == <<runs, touched>>

vars == <<pc, entry, start_time, duration, speakers, segment_durations, i,
          current_time, segments, temp_segments, missing, files, output,
          success, clip_data, call, ret, detection, resyncVars, runVars>>

\* Python None
None == [tag |-> "None"]

Value(v) == [tag |-> "value", value |-> v]

\* what detect_speakers_from_segment went through: the filtered detections
\* it clustered ("clustered"), the default for unreadable dimensions
\* ("invalid_dimensions") or the except clause of lines 225-227 ("error")
Detection(kind, faces, width, height) ==
    [tag |-> "detection", kind |-> kind, faces |-> faces,
     width |-> width, height |-> height]

\* no caption re-synchronization is modelled
NoResync ==
    /\ job = None
    /\ regen = <<>>
    /\ video = None
    /\ temp_video = None
    /\ base_video = None
    /\ subtitle = <<>>

\* no concurrent invocations are modelled
NoRuns ==
    /\ runs = <<>>
    /\ touched = {}

\* the variables of an invocation before anything has run
Fresh ==
    /\ speakers = <<>>
    /\ segment_durations = <<>>
    /\ i = 0
    /\ current_time = RInt(0)
    /\ segments = <<>>
    /\ temp_segments = <<>>
    /\ missing = 0
    /\ files = {}
    /\ output = None
    /\ success = FALSE
    /\ clip_data = None
    /\ detection = None

\* no direct helper call is modelled
NoCall == call = None /\ ret = None

\* no pipeline invocation is modelled
NoPipeline ==
    /\ pc = "idle"
    /\ entry = "none"
    /\ start_time = RInt(0)
    /\ duration = RInt(0)
    /\ Fresh

(***************************************************************************)
(* create_viral_clip_with_speaker_switching                                *)
(***************************************************************************)
\* one render: ffmpeg.input(ss=start, t=dur) with crop=1080:1920:x:y; an
\* empty crop is ffmpeg's default (centred) crop
Render(index, start, dur, speaker_id, crop) ==
    [index |-> index, start |-> start, dur |-> dur,
     speaker_id |-> speaker_id, crop |-> crop]

\* the render of iteration i of the segment loop
LoopRender ==
    LET speaker == SegmentSpeaker(i, speakers)
    IN  Render(i, RAdd(start_time, current_time), segment_durations[i + 1],
               speaker.id, <<speaker.crop_zone[1], speaker.crop_zone[2]>>)

\* where control goes when a create_* call returns
AfterCreate == IF entry = "generate" THEN "created" ELSE "done"

\* lines 747-783: the schedule is computed, the loop starts
SwitchStart ==
    /\ pc = "switch"
    /\ segment_durations' = calculate_segments(duration, Len(speakers))
    /\ temp_segments' = <<>>
    /\ current_time' = RInt(0)
    /\ i' = 0
    /\ pc' = "render"
    /\ UNCHANGED <<entry, start_time, duration, speakers, segments, missing,
                   files, output, success, clip_data, call, ret, detection, resyncVars, runVars>>

\* lines 784-820: segment i is encoded and its file exists
RenderSegment ==
    /\ pc = "render"
    /\ i < Len(segment_durations)
    /\ segments' = Append(segments, LoopRender)
    /\ temp_segments' = Append(temp_segments, LoopRender)
    /\ files' = files \cup {<<"viral_seg", i>>}
    /\ current_time' = RAdd(current_time, segment_durations[i + 1])
    /\ i' = i + 1
    /\ UNCHANGED <<pc, entry, start_time, duration, speakers, segment_durations,
                   missing, output, success, clip_data, call, ret, detection, resyncVars, runVars>>

\* lines 803-820: ffmpeg returns but os.path.exists(temp_segment) is false;
\* the segment is left out of temp_segments and the loop goes on
RenderSegmentMissing ==
    /\ pc = "render"
    /\ i < Len(segment_durations)
    /\ missing < MaxMissing
    /\ missing' = missing + 1
    /\ segments' = Append(segments, LoopRender)
    /\ current_time' = RAdd(current_time, segment_durations[i + 1])
    /\ i' = i + 1
    /\ UNCHANGED <<pc, entry, start_time, duration, speakers, segment_durations,
                   temp_segments, files, output, success, clip_data, call, ret, detection, resyncVars, runVars>>

\* lines 803-815, 867-870: ffmpeg raises; the except clause falls back
RenderSegmentError ==
    /\ pc = "render"
    /\ i < Len(segment_durations)
    /\ segments' = Append(segments, LoopRender)
    /\ pc' = "basic"
    /\ UNCHANGED <<entry, start_time, duration, speakers, segment_durations, i,
                   current_time, temp_segments, missing, files, output, success,
                   clip_data, call, ret, detection, resyncVars, runVars>>

\* the per-segment files and the manifest removed by lines 847-852
Intermediates ==
    {<<"viral_seg", temp_segments[k].index>> : k \in 1..Len(temp_segments)}
        \cup {<<"viral_concat_list">>}

\* lines 823-863: the manifest is written, the files are concatenated in
\* list order, the intermediates are removed and the size check passes
ConcatOk ==
    /\ pc = "render"
    /\ i = Len(segment_durations)
    /\ temp_segments # <<>>
    /\ output' = [tag |-> "video", kind |-> "concat", parts |-> temp_segments]
    /\ files' = files \ Intermediates
    /\ success' = TRUE
    /\ pc' = AfterCreate
    /\ UNCHANGED <<entry, start_time, duration, speakers, segment_durations, i,
                   current_time, segments, temp_segments, missing, clip_data,
                   call, ret, detection, resyncVars, runVars>>

\* lines 847-865: the concatenation ran but the output is absent or under
\* 0.1 MB; the intermediates are removed and False is returned
ConcatBadOutput ==
    /\ pc = "render"
    /\ i = Len(segment_durations)
    /\ temp_segments # <<>>
    /\ \E kind \in {"too_small", "absent"} :
          output' = IF kind = "absent" THEN None
                    ELSE [tag |-> "video", kind |-> kind, parts |-> <<>>]
    /\ files' = files \ Intermediates
    /\ success' = FALSE
    /\ pc' = AfterCreate
    /\ UNCHANGED <<entry, start_time, duration, speakers, segment_durations, i,
                   current_time, segments, temp_segments, missing, clip_data,
                   call, ret, detection, resyncVars, runVars>>

\* lines 833-845: ffmpeg.Error during concatenation; False is returned
\* before the clean-up
ConcatError ==
    /\ pc = "render"
    /\ i = Len(segment_durations)
    /\ temp_segments # <<>>
    /\ files' = files \cup {<<"viral_concat_list">>}
    /\ success' = FALSE
    /\ pc' = AfterCreate
    /\ UNCHANGED <<entry, start_time, duration, speakers, segment_durations, i,
                   current_time, segments, temp_segments, missing, output,
                   clip_data, call, ret, detection, resyncVars, runVars>>

\* lines 823, 865: no per-segment file exists; False is returned
ConcatNothing ==
    /\ pc = "render"
    /\ i = Len(segment_durations)
    /\ temp_segments = <<>>
    /\ success' = FALSE
    /\ pc' = AfterCreate
    /\ UNCHANGED <<entry, start_time, duration, speakers, segment_durations, i,
                   current_time, segments, temp_segments, missing, files, output,
                   clip_data, call, ret, detection, resyncVars, runVars>>

\* create_basic_viral_clip (called at line 870): one render of the full
\* duration with the default centred crop; its result is returned
create_basic_viral_clip ==
    /\ pc = "basic"
    /\ segments' = Append(segments, Render(0, start_time, duration, 0, <<>>))
    /\ \E ok \in BOOLEAN :
          /\ success' = ok
          /\ output' = IF ok
                       THEN [tag |-> "video", kind |-> "basic",
                             parts |-> <<Render(0, start_time, duration, 0, <<>>)>>]
                       ELSE output
    /\ pc' = AfterCreate
    /\ UNCHANGED <<entry, start_time, duration, speakers, segment_durations, i,
                   current_time, temp_segments, missing, files, clip_data,
                   call, ret, detection, resyncVars, runVars>>

NextSwitch ==
    \/ SwitchStart
    \/ RenderSegment
    \/ RenderSegmentMissing
    \/ RenderSegmentError
    \/ ConcatOk
    \/ ConcatBadOutput
    \/ ConcatError
    \/ ConcatNothing
    \/ create_basic_viral_clip

(***************************************************************************)
(* create_smart_single_speaker_clip                                        *)
(***************************************************************************)
\* SmartRender with the 10 s cap of the analysis clip
SmartRender_capped ==
    LET t == IF RLess(duration, RInt(10)) THEN duration ELSE RInt(10)
    IN  IF speakers # <<>>
        THEN Render(0, start_time, t, speakers[1].id,
                    <<speakers[1].crop_zone[1], speakers[1].crop_zone[2]>>)
        ELSE Render(0, start_time, t, 0, <<>>)

\* the single render of lines 879-913: the first speaker's crop zone, or
\* ffmpeg's centred crop when the speaker list is empty
SmartRender ==
    IF speakers # <<>>
    THEN Render(0, start_time, duration, speakers[1].id,
                <<speakers[1].crop_zone[1], speakers[1].crop_zone[2]>>)
    ELSE Render(0, start_time, duration, 0, <<>>)

\* lines 879-923: the render succeeds and the size check passes
SmartClipOk ==
    /\ pc = "smart"
    /\ segments' = Append(segments, SmartRender)
    /\ output' = [tag |-> "video", kind |-> "single", parts |-> <<SmartRender>>]
    /\ success' = TRUE
    /\ pc' = AfterCreate
    /\ UNCHANGED <<entry, start_time, duration, speakers, segment_durations, i,
                   current_time, temp_segments, missing, files, clip_data,
                   call, ret, detection, resyncVars, runVars>>

\* lines 915-925: the output is absent or under 0.1 MB; False is returned
SmartClipBadOutput ==
    /\ pc = "smart"
    /\ segments' = Append(segments, SmartRender)
    /\ \E kind \in {"too_small", "absent"} :
          output' = IF kind = "absent" THEN None
                    ELSE [tag |-> "video", kind |-> kind, parts |-> <<>>]
    /\ success' = FALSE
    /\ pc' = AfterCreate
    /\ UNCHANGED <<entry, start_time, duration, speakers, segment_durations, i,
                   current_time, temp_segments, missing, files, clip_data,
                   call, ret, detection, resyncVars, runVars>>

\* lines 927-934: ffmpeg raises and the exception is re-raised to the caller
SmartClipError ==
    /\ pc = "smart"
    /\ segments' = Append(segments, SmartRender)
    /\ pc' = "raised"
    /\ UNCHANGED <<entry, start_time, duration, speakers, segment_durations, i,
                   current_time, temp_segments, missing, files, output, success,
                   clip_data, call, ret, detection, resyncVars, runVars>>

(***************************************************************************)
(* generate_viral_clip                                                     *)
(***************************************************************************)
\* lines 945-958: the video is downloaded (or not)
DownloadVideo ==
    /\ pc = "download"
    /\ \E ok \in BOOLEAN :
          pc' = IF ok THEN "detect" ELSE "done"
    /\ UNCHANGED <<entry, start_time, duration, speakers, segment_durations, i,
                   current_time, segments, temp_segments, missing, files, output,
                   success, clip_data, call, ret, detection, resyncVars, runVars>>

\* detect_speakers_from_segment, lines 216-223 and 289-305: the filtered
\* detections of the analysis clip are clustered into speakers
DetectSpeakers ==
    /\ pc = "detect"
    /\ \E faces \in PipelineFaceLists :
          /\ speakers' = cluster_faces_into_speakers(faces, Frame.width, Frame.height)
          /\ detection' = Detection("clustered", faces, Frame.width, Frame.height)
    /\ pc' = "create"
    /\ UNCHANGED <<entry, start_time, duration, segment_durations, i,
                   current_time, segments, temp_segments, missing, files, output,
                   success, clip_data, call, ret, resyncVars, runVars>>

\* lines 285-287: the analysis clip reports no dimensions
DetectInvalidDimensions ==
    /\ pc = "detect"
    /\ speakers' = create_default_speakers(1920, 1080)
    /\ detection' = Detection("invalid_dimensions", <<>>, 1920, 1080)
    /\ pc' = "create"
    /\ UNCHANGED <<entry, start_time, duration, segment_durations, i,
                   current_time, segments, temp_segments, missing, files, output,
                   success, clip_data, call, ret, resyncVars, runVars>>

\* lines 225-227: detection raises and an empty list is returned
DetectSpeakersError ==
    /\ pc = "detect"
    /\ speakers' = <<>>
    /\ detection' = Detection("error", <<>>, Frame.width, Frame.height)
    /\ pc' = "create"
    /\ UNCHANGED <<entry, start_time, duration, segment_durations, i,
                   current_time, segments, temp_segments, missing, files, output,
                   success, clip_data, call, ret, resyncVars, runVars>>

\* lines 969-978: the assembly method is chosen by the speaker count
CreateClip ==
    /\ pc = "create"
    /\ pc' = IF Len(speakers) >= 2 THEN "switch" ELSE "smart"
    /\ UNCHANGED <<entry, start_time, duration, speakers, segment_durations, i,
                   current_time, segments, temp_segments, missing, files, output,
                   success, clip_data, call, ret, detection, resyncVars, runVars>>

\* the clip_data of lines 987-1003 for a speaker list and the outcome of
\* transcribe_audio, which returns (None, []) when it fails
ClipData(speaker_list, transcribed) ==
    [tag |-> "clip",
     start_time |-> start_time,
     duration |-> duration,
     speakers_detected |-> IF speaker_list # <<>> THEN Len(speaker_list) ELSE 0,
     dynamic_cropping |-> Len(speaker_list) >= 2,
     speaker_switching |-> Len(speaker_list) >= 2,
     subtitle_file |-> IF transcribed THEN "srt" ELSE "None",
     captions |-> IF transcribed THEN "segments" ELSE "empty"]

\* lines 980-1005: the clip is transcribed and clip_data is returned
ReturnClipData ==
    /\ pc = "created"
    /\ success
    /\ \E transcribed \in BOOLEAN :
          clip_data' = ClipData(speakers, transcribed)
    /\ pc' = "done"
    /\ UNCHANGED <<entry, start_time, duration, speakers, segment_durations, i,
                   current_time, segments, temp_segments, missing, files, output,
                   success, call, ret, detection, resyncVars, runVars>>

\* lines 1006-1008: the create_* call returned False
ReturnNone ==
    /\ pc = "created"
    /\ ~success
    /\ clip_data' = None
    /\ pc' = "done"
    /\ UNCHANGED <<entry, start_time, duration, speakers, segment_durations, i,
                   current_time, segments, temp_segments, missing, files, output,
                   success, call, ret, detection, resyncVars, runVars>>

(***************************************************************************)
(* Specifications.                                                         *)
(***************************************************************************)
\* generate_viral_clip(video_url, start_time, duration)
Init ==
    /\ pc = "download"
    /\ entry = "generate"
    /\ start_time \in StartTimes
    /\ duration \in Durations
    /\ Fresh
    /\ NoCall
    /\ NoResync
    /\ NoRuns

Next ==
    \/ DownloadVideo
    \/ DetectSpeakers
    \/ DetectInvalidDimensions
    \/ DetectSpeakersError
    \/ CreateClip
    \/ NextSwitch
    \/ SmartClipOk
    \/ SmartClipBadOutput
    \/ SmartClipError
    \/ ReturnClipData
    \/ ReturnNone

Spec == Init /\ [][Next]_vars

\* the speaker lists the clusterer returns for the pipeline's detections
PipelineSpeakerLists ==
    {cluster_faces_into_speakers(faces, Frame.width, Frame.height) :
        faces \in PipelineFaceLists}

\* create_viral_clip_with_speaker_switching(video_path, start_time, duration,
\* output_path, speakers) called with a list of one to three speakers
InitSwitch ==
    /\ pc = "switch"
    /\ entry = "switch"
    /\ start_time \in StartTimes
    /\ duration \in Durations
    /\ segment_durations = <<>>
    /\ i = 0
    /\ current_time = RInt(0)
    /\ segments = <<>>
    /\ temp_segments = <<>>
    /\ missing = 0
    /\ files = {}
    /\ output = None
    /\ success = FALSE
    /\ clip_data = None
    /\ speakers \in PipelineSpeakerLists
    /\ detection = None
    /\ NoCall
    /\ NoResync
    /\ NoRuns

SpecSwitch == InitSwitch /\ [][NextSwitch]_vars

(***************************************************************************)
(* Caption files.  A string is a sequence of tokens: single characters,    *)
(* and the cue number, a timestamp and " --> " as one token each (no text  *)
(* of the model contains a digit, "-" or ">").                             *)
(***************************************************************************)
\* str.strip(): leading and trailing whitespace removed
Strip(s) ==
    LET Whitespace == {" ", "\n"}
        RECURSIVE LStrip(_), RStrip(_)
        LStrip(t) == IF t # <<>> /\ Head(t) \in Whitespace THEN LStrip(Tail(t)) ELSE t
        RStrip(t) == IF t # <<>> /\ t[Len(t)] \in Whitespace
                     THEN RStrip(SubSeq(t, 1, Len(t) - 1))
                     ELSE t
    IN  RStrip(LStrip(s))

\* str.startswith(p)
StartsWith(s, p) == Len(s) >= Len(p) /\ SubSeq(s, 1, Len(p)) = p

\* str.split(sep)
Split(s, sep) ==
    LET RECURSIVE SplitFrom(_, _)
        SplitFrom(t, part) ==
            IF t = <<>> THEN <<part>>
            ELSE IF StartsWith(t, sep)
                 THEN <<part>> \o SplitFrom(SubSeq(t, Len(sep) + 1, Len(t)), <<>>)
                 ELSE SplitFrom(Tail(t), Append(part, Head(t)))
    IN  SplitFrom(s, <<>>)

RECURSIVE Join(_, _)
\* sep.join(parts)
Join(parts, sep) ==
    IF parts = <<>> THEN <<>>
    ELSE IF Len(parts) = 1 THEN parts[1]
         ELSE parts[1] \o sep \o Join(Tail(parts), sep)

\* str.find(p): the 0-based position of the first occurrence, or -1
Find(s, p) ==
    LET at == {k \in 1..(Len(s) - Len(p) + 1) : SubSeq(s, k, k + Len(p) - 1) = p}
    IN  IF at = {} THEN -1 ELSE (CHOOSE k \in at : \A j \in at : k <= j) - 1

RECURSIVE Replace(_, _, _)
\* str.replace(old, new)
Replace(s, old, new) ==
    IF s = <<>> THEN <<>>
    ELSE IF StartsWith(s, old)
         THEN new \o Replace(SubSeq(s, Len(old) + 1, Len(s)), old, new)
         ELSE <<Head(s)>> \o Replace(Tail(s), old, new)

\* format_timestamp: HH:MM:SS,mmm of a time in seconds, truncated
format_timestamp(seconds) ==
    LET Pad2(n) == IF n < 10 THEN "0" \o ToString(n) ELSE ToString(n)
        Pad3(n) == IF n < 10 THEN "00" \o ToString(n)
                   ELSE IF n < 100 THEN "0" \o ToString(n) ELSE ToString(n)
        whole == seconds[1] \div seconds[2]
        millis == ((seconds[1] % seconds[2]) * 1000) \div seconds[2]
    IN  Pad2(whole \div 3600) \o ":" \o Pad2((whole % 3600) \div 60) \o ":"
            \o Pad2(whole % 60) \o "," \o Pad3(millis)

\* the file transcribe_audio writes for result["segments"] (lines 1029-1037)
WriteSrt(segs) ==
    LET RECURSIVE WriteSrtFrom(_, _)
        WriteSrtFrom(rest, n) ==
            IF rest = <<>> THEN <<>>
            ELSE <<ToString(n), "\n">>
                    \o <<format_timestamp(rest[1].start), " --> ",
                         format_timestamp(rest[1].end), "\n">>
                    \o Strip(rest[1].text) \o <<"\n", "\n">>
                    \o WriteSrtFrom(Tail(rest), n + 1)
    IN  WriteSrtFrom(segs, 1)

\* lines 92-117: the caption of one block, or None when the block has fewer
\* than 3 lines, has no " --> " in its second line or raises (the except
\* clause skips it)
ParseBlock(block) ==
    LET lines == Split(Strip(block), <<"\n">>)
        IsInt(line) == \E n \in 0..99 : Strip(line) = <<ToString(n)>>
        IntOf(line) == CHOOSE n \in 0..99 : Strip(line) = <<ToString(n)>>
        timing == lines[2]
        parts == Split(timing, <<" --> ">>)
        text == Join(SubSeq(lines, 3, Len(lines)), <<"\n">>)
        speaker_end == Find(text, <<"]", " ">>)
        labelled == StartsWith(text, <<"[">>) /\ speaker_end # -1
    IN  IF Len(lines) < 3 THEN None
        ELSE IF ~IsInt(lines[1]) THEN None
        ELSE IF Find(timing, <<" --> ">>) = -1 THEN None
        ELSE IF Len(parts) # 2 THEN None
        ELSE [text |-> Strip(IF labelled
                             THEN SubSeq(text, speaker_end + 3, Len(text))
                             ELSE text),
              speaker |-> IF labelled THEN SubSeq(text, 2, speaker_end)
                          ELSE <<"Speaker 1">>,
              start_time |-> Strip(parts[1]),
              end_time |-> Strip(parts[2]),
              index |-> IntOf(lines[1])]

\* extract_captions_from_srt_fixed applied to the content of the file
extract_captions_from_srt_fixed(content) ==
    LET subtitle_blocks ==
            Split(Strip(Replace(content, <<"\\", "n">>, <<"\n">>)), <<"\n", "\n">>)
        parsed == [k \in 1..Len(subtitle_blocks) |-> ParseBlock(subtitle_blocks[k])]
    IN  SelectSeq(parsed, LAMBDA c : c # None)

\* cue texts: every text of at most MaxTextLen letters, blanks and line
\* breaks, a text with a bracketed label, one with an empty line and one with
\* a backslash and n
SrtTexts ==
    UNION {[1..n -> {"a", " ", "\n"}] : n \in 0..MaxTextLen}
        \cup { <<"[", "a", "]", " ", "a">>, <<"a", "\n", "\n", "a">>,
               <<"a", "\\", "n", "a">> }

\* the j-th boundary of the transcript segments, in seconds
TimeAt(j) == Rat(3661 * (j - 1), 3)

\* result["segments"] of the transcriber for a list of texts: consecutive
\* timed segments
Segments(texts) ==
    [k \in 1..Len(texts) |->
        [start |-> TimeAt(2 * k - 1), end |-> TimeAt(2 * k), text |-> texts[k]]]

(***************************************************************************)
(* Direct calls of the pure helpers: the arguments are drawn by the        *)
(* initial state, the action applies the helper.                           *)
(***************************************************************************)
\* source sizes: 16:9 (720p, 1080p), 4:3, 9:16 portrait, a 9:19.5 phone
\* recording (narrower than the target after scaling) and a source whose
\* scaled width is exactly the target width
VideoDims ==
    { <<1280, 720>>, <<1920, 1080>>, <<640, 480>>, <<1440, 1080>>,
      <<1080, 1920>>, <<1080, 2340>>, <<608, 1080>> }

Positions == {"center", "left", "right", "other"}

CropCalls ==
    { [fn |-> "calculate_crop_zone",
       face_x |-> (d[1] * k) \div CropSteps, face_y |-> d[2] \div 2,
       video_width |-> d[1], video_height |-> d[2], position |-> p] :
         d \in VideoDims, k \in -1..(CropSteps + 1), p \in Positions }

DefaultSpeakerCalls ==
    { [fn |-> "create_default_speakers", width |-> d[1], height |-> d[2]] :
         d \in VideoDims }

ClusteringCalls ==
    { [fn |-> "improved_face_clustering", faces |-> f,
       width |-> Frame.width, height |-> Frame.height] : f \in FaceLists }

ClusterSpeakerCalls ==
    { [fn |-> "cluster_faces_into_speakers", faces |-> f,
       width |-> Frame.width, height |-> Frame.height] :
         f \in FaceLists \cup UNION {[1..n -> CrowdBoxes] : n \in 4..MaxCrowd} }

\* transcripts of n segments that follow each other, of the lengths a, b,
\* a, b, ... seconds
EstimateCalls ==
    { [fn |-> "estimate_speakers_from_segments",
       segments |-> [k \in 1..n |->
           LET before == ((k - 1) \div 2) * (a + b) + (IF k % 2 = 0 THEN a ELSE 0)
           IN  [start |-> RInt(before),
                end |-> RInt(before + (IF k % 2 = 1 THEN a ELSE b))]]] :
         n \in 0..MaxTranscript, a \in {1, 3, 5, 8}, b \in {1, 3, 5, 8} }

\* analysis clips of up to 10 s (line 178), a longer and an empty or
\* unreadable one, and the estimates 1 to 3
SamplePointCalls ==
    { [fn |-> "sample_points", duration |-> d, estimated_speakers |-> n] :
         d \in {RInt(-1), RInt(0), Rat(1, 2), RInt(6), RInt(10), Rat(201, 20),
                RInt(24), RInt(40)},
         n \in 1..3 }

\* raw boxes of a 640x360 picture: one that every filter keeps, ones below
\* the least edge of each path, an oversized, a narrow and two tiny ones
RawBoxes ==
    { <<240, 100, 160, 160>>, <<100, 100, 90, 90>>, <<300, 100, 110, 110>>,
      <<200, 100, 140, 140>>, <<100, 10, 400, 340>>, <<100, 100, 100, 210>>,
      <<50, 50, 60, 60>>, <<50, 50, 70, 70>> }

\* speaker detection on an analysis clip: the dimensions the capture
\* reports, the number of sampled frames cap.read() delivers, the boxes
\* the cascades find in each of them, and whether OpenCV raises
DetectCalls ==
    { [fn |-> "detect_speakers_with_smart_sampling", width |-> d[1], height |-> d[2],
       frames |-> f, estimated_speakers |-> n, raw |-> raw, raises |-> e] :
         d \in {<<640, 360>>, <<0, 0>>, <<0, 360>>}, f \in 0..2, n \in 1..3,
         raw \in UNION {[1..k -> RawBoxes] : k \in 0..MaxRaw}, e \in BOOLEAN }

\* jobs of num_clips clips: the segments ContentAnalyzer.analyze_transcript
\* suggests (any number of them, by their start times) and, for a single
\* clip, whether generate_viral_clip returns a clip
JobCalls ==
    { [fn |-> "process_clip_generation", num_clips |-> n, suggested |-> sg,
       single |-> c] :
         n \in 1..MaxClips,
         sg \in UNION {[1..k -> {[start_time |-> 10], [start_time |-> 60]}] :
                          k \in 0..MaxClips},
         c \in {None, [start_time |-> 0]} }

\* one sampled frame: the estimate and the number of boxes (0 to MaxRaw)
\* each pass returns for the frame if it is run
PassCalls ==
    { [fn |-> "detection_passes", estimated_speakers |-> n, finds |-> f] :
         n \in 1..3, f \in UNION {[1..k -> 0..MaxRaw] : k \in {2, 4}} }

Calling(fn) == call # None /\ call.fn = fn /\ ret = None

Returned(fn) == call # None /\ call.fn = fn /\ ret # None

CallCalculateCropZone ==
    /\ Calling("calculate_crop_zone")
    /\ ret' = Value(calculate_crop_zone(call.face_x, call.face_y, call.video_width,
                                        call.video_height, call.position))
    /\ UNCHANGED <<pc, entry, start_time, duration, speakers, segment_durations,
                   i, current_time, segments, temp_segments, missing, files,
                   output, success, clip_data, call, detection, resyncVars, runVars>>

CallCreateDefaultSpeakers ==
    /\ Calling("create_default_speakers")
    /\ ret' = Value(create_default_speakers(call.width, call.height))
    /\ UNCHANGED <<pc, entry, start_time, duration, speakers, segment_durations,
                   i, current_time, segments, temp_segments, missing, files,
                   output, success, clip_data, call, detection, resyncVars, runVars>>

CallImprovedFaceClustering ==
    /\ Calling("improved_face_clustering")
    /\ ret' = Value(improved_face_clustering(call.faces, call.width, call.height))
    /\ UNCHANGED <<pc, entry, start_time, duration, speakers, segment_durations,
                   i, current_time, segments, temp_segments, missing, files,
                   output, success, clip_data, call, detection, resyncVars, runVars>>

CallClusterFacesIntoSpeakers ==
    /\ Calling("cluster_faces_into_speakers")
    /\ ret' = Value(cluster_faces_into_speakers(call.faces, call.width, call.height))
    /\ UNCHANGED <<pc, entry, start_time, duration, speakers, segment_durations,
                   i, current_time, segments, temp_segments, missing, files,
                   output, success, clip_data, call, detection, resyncVars, runVars>>

CallEstimateSpeakers ==
    /\ Calling("estimate_speakers_from_segments")
    /\ ret' = Value(estimate_speakers_from_segments(call.segments))
    /\ UNCHANGED <<pc, entry, start_time, duration, speakers, segment_durations,
                   i, current_time, segments, temp_segments, missing, files,
                   output, success, clip_data, call, detection, resyncVars, runVars>>

\* the request to the content analyzer and the clips of a multi-clip
\* generation in which every stage succeeds: one per suggested segment
generate_multiple_viral_clips(suggested, num_clips) ==
    [asked |-> num_clips,
     clips |-> [k \in 1..Len(suggested) |-> [start_time |-> suggested[k].start_time]]]

\* process_clip_generation with the last clip as the primary one
ProcessClipGeneration_last_clip ==
    /\ Calling("process_clip_generation")
    /\ LET made == generate_multiple_viral_clips(call.suggested, call.num_clips)
           clips_data == IF call.num_clips > 1 THEN made.clips
                         ELSE IF call.single = None THEN <<>> ELSE <<call.single>>
           asked == IF call.num_clips > 1 THEN made.asked ELSE 0
       IN  IF clips_data # <<>>
           THEN LET primary == [start_time |-> clips_data[Len(clips_data)].start_time,
                                captions |-> "extract_caption_data"]
                IN  ret' = Value([status |-> "completed", asked |-> asked,
                                  clip_data |-> primary,
                                  generated_clips |->
                                      [k \in 1..Len(clips_data) |->
                                          IF k = Len(clips_data) THEN primary
                                          ELSE clips_data[k]]])
           ELSE ret' = Value([status |-> "error", asked |-> asked,
                              clip_data |-> None, generated_clips |-> <<>>])
    /\ UNCHANGED <<pc, entry, start_time, duration, speakers, segment_durations,
                   i, current_time, segments, temp_segments, missing, files,
                   output, success, clip_data, call, detection, resyncVars, runVars>>

\* lines 151-185 of process_clip_generation: job.generated_clips and
\* job.clip_data; job.clip_data is the first dictionary of the list, so the
\* captions stored in it at line 183 are seen through the list as well
\* (None stands for the clip_data of a job that failed)
ProcessClipGeneration ==
    /\ Calling("process_clip_generation")
    /\ LET made == generate_multiple_viral_clips(call.suggested, call.num_clips)
           clips_data == IF call.num_clips > 1 THEN made.clips
                         ELSE IF call.single = None THEN <<>> ELSE <<call.single>>
           asked == IF call.num_clips > 1 THEN made.asked ELSE 0
       IN  IF clips_data # <<>>
           THEN LET primary == [start_time |-> clips_data[1].start_time,
                                captions |-> "extract_caption_data"]
                IN  ret' = Value([status |-> "completed", asked |-> asked,
                                  clip_data |-> primary,
                                  generated_clips |->
                                      [k \in 1..Len(clips_data) |->
                                          IF k = 1 THEN primary ELSE clips_data[k]]])
           ELSE ret' = Value([status |-> "error", asked |-> asked,
                              clip_data |-> None, generated_clips |-> <<>>])
    /\ UNCHANGED <<pc, entry, start_time, duration, speakers, segment_durations,
                   i, current_time, segments, temp_segments, missing, files,
                   output, success, clip_data, call, detection, resyncVars, runVars>>

\* lines 376-391 of detect_faces_at_frames for one frame that was read
CallDetectionPasses ==
    /\ Calling("detection_passes")
    /\ Len(call.finds) = Len(detection_passes(call.estimated_speakers))
    /\ ret' = Value(PassLoop(detection_passes(call.estimated_speakers), call.finds,
                             call.estimated_speakers, 1, <<>>))
    /\ UNCHANGED <<pc, entry, start_time, duration, speakers, segment_durations,
                   i, current_time, segments, temp_segments, missing, files,
                   output, success, clip_data, call, detection, resyncVars, runVars>>

\* the boxes found in all the sampled frames that could be read
FoundBoxes == IF call.frames = 0 THEN <<>>
              ELSE IF call.frames = 1 THEN call.raw ELSE call.raw \o call.raw

\* lines 255-276 of detect_speakers_with_smart_sampling: the detection
\* passes run on every sampled frame that is read, before the dimensions
\* are looked at; (w * h) / (width * height) raises ZeroDivisionError
DetectFacesAtFrames ==
    /\ Calling("detect_speakers_with_smart_sampling")
    /\ detection = None
    /\ detection' =
          IF call.raises
          THEN Detection("raised", <<>>, call.width, call.height)
          ELSE IF call.frames = 0
          THEN Detection("no_frame", <<>>, call.width, call.height)
          ELSE IF call.width * call.height = 0 /\ FoundBoxes # <<>>
          THEN Detection("divided_by_zero", <<>>, call.width, call.height)
          ELSE Detection("at_frames",
                         detect_faces_at_frames(FoundBoxes, call.width, call.height,
                                                call.estimated_speakers),
                         call.width, call.height)
    /\ UNCHANGED <<pc, entry, start_time, duration, speakers, segment_durations,
                   i, current_time, segments, temp_segments, missing, files,
                   output, success, clip_data, call, ret, resyncVars, runVars>>

\* lines 278-293 and 306: the dimension check, the clustering and the
\* comparison with the estimate
SmartCluster ==
    /\ Calling("detect_speakers_with_smart_sampling")
    /\ detection # None /\ detection.kind \in {"no_frame", "at_frames"}
    /\ IF call.width <= 0 \/ call.height <= 0
       THEN /\ ret' = Value(create_default_speakers(1920, 1080))
            /\ detection' = Detection("invalid_dimensions", <<>>, 1920, 1080)
       ELSE LET found == cluster_faces_into_speakers(detection.faces, call.width,
                                                     call.height)
            IN  IF Len(found) < call.estimated_speakers /\ call.estimated_speakers > 1
                THEN /\ detection' = Detection("retry", detection.faces,
                                               call.width, call.height)
                     /\ ret' = ret
                ELSE /\ ret' = Value(found)
                     /\ detection' = detection
    /\ UNCHANGED <<pc, entry, start_time, duration, speakers, segment_durations,
                   i, current_time, segments, temp_segments, missing, files,
                   output, success, clip_data, call, resyncVars, runVars>>

\* DetectFacesEnhanced that also takes a retry result of as many speakers
DetectFacesEnhanced_not_fewer ==
    /\ Calling("detect_speakers_with_smart_sampling")
    /\ detection # None /\ detection.kind = "retry"
    /\ LET found == cluster_faces_into_speakers(detection.faces, call.width,
                                                call.height)
           enhanced_faces == detect_faces_enhanced(FoundBoxes, call.width, call.height)
           enhanced_speakers == cluster_faces_into_speakers(enhanced_faces, call.width,
                                                            call.height)
       IN  /\ detection' = Detection("enhanced", enhanced_faces, call.width, call.height)
           /\ ret' = Value(IF Len(enhanced_speakers) >= Len(found)
                           THEN enhanced_speakers ELSE found)
    /\ UNCHANGED <<pc, entry, start_time, duration, speakers, segment_durations,
                   i, current_time, segments, temp_segments, missing, files,
                   output, success, clip_data, call, resyncVars, runVars>>

\* lines 294-306: the escalated retry on the same frames
DetectFacesEnhanced ==
    /\ Calling("detect_speakers_with_smart_sampling")
    /\ detection # None /\ detection.kind = "retry"
    /\ LET found == cluster_faces_into_speakers(detection.faces, call.width,
                                                call.height)
           enhanced_faces == detect_faces_enhanced(FoundBoxes, call.width, call.height)
           enhanced_speakers == cluster_faces_into_speakers(enhanced_faces, call.width,
                                                            call.height)
       IN  /\ detection' = Detection("enhanced", enhanced_faces, call.width, call.height)
           /\ ret' = Value(IF Len(enhanced_speakers) > Len(found)
                           THEN enhanced_speakers ELSE found)
    /\ UNCHANGED <<pc, entry, start_time, duration, speakers, segment_durations,
                   i, current_time, segments, temp_segments, missing, files,
                   output, success, clip_data, call, resyncVars, runVars>>

\* lines 308-311 and detect_speakers (456-567): the plain detection after
\* an exception; it looks at the dimensions before it reads a frame
DetectSpeakersPlain ==
    /\ Calling("detect_speakers_with_smart_sampling")
    /\ detection # None /\ detection.kind \in {"raised", "divided_by_zero"}
    /\ IF call.width <= 0 \/ call.height <= 0
       THEN /\ ret' = Value(create_default_speakers(1920, 1080))
            /\ detection' = Detection("invalid_dimensions", <<>>, 1920, 1080)
       ELSE LET all_faces == detect_speakers_faces(FoundBoxes, call.width, call.height)
            IN  /\ detection' = Detection("plain", all_faces, call.width, call.height)
                /\ ret' = Value(IF all_faces = <<>>
                                THEN create_default_speakers(call.width, call.height)
                                ELSE cluster_faces_into_speakers(all_faces, call.width,
                                                                 call.height))
    /\ UNCHANGED <<pc, entry, start_time, duration, speakers, segment_durations,
                   i, current_time, segments, temp_segments, missing, files,
                   output, success, clip_data, call, resyncVars, runVars>>

\* the sample points of a clip; random.uniform(0, duration) is called
\* num_samples // 4 times for more than one speaker (lines 332-333) and
\* gives the start, the end or a point inside each time
CallSamplePoints ==
    /\ Calling("sample_points")
    /\ \E random_points \in SUBSET {RDivInt(RMulInt(call.duration, k), 7) : k \in 0..7} :
          /\ IF call.estimated_speakers = 1 THEN random_points = {}
             ELSE /\ random_points # {}
                  /\ Cardinality(random_points)
                        <= Min2(30, Max2(20, call.estimated_speakers * 10)) \div 4
          /\ ret' = Value(sample_points(call.duration, call.estimated_speakers,
                                        random_points))
    /\ UNCHANGED <<pc, entry, start_time, duration, speakers, segment_durations,
                   i, current_time, segments, temp_segments, missing, files,
                   output, success, clip_data, call, detection, resyncVars, runVars>>

\* transcribe_audio writes the .srt file of the transcript segments
CallTranscribeAudio ==
    /\ Calling("transcribe_audio")
    /\ ret' = Value(WriteSrt(call.segments))
    /\ UNCHANGED <<pc, entry, start_time, duration, speakers, segment_durations,
                   i, current_time, segments, temp_segments, missing, files,
                   output, success, clip_data, call, detection, resyncVars, runVars>>

\* extract_caption_data reads the file back (helpers.py lines 73-74)
CallExtractCaptionsFromSrt ==
    /\ Returned("transcribe_audio")
    /\ call' = [fn |-> "extract_captions_from_srt_fixed",
                segments |-> call.segments, content |-> ret.value]
    /\ ret' = Value(extract_captions_from_srt_fixed(ret.value))
    /\ UNCHANGED <<pc, entry, start_time, duration, speakers, segment_durations,
                   i, current_time, segments, temp_segments, missing, files,
                   output, success, clip_data, detection, resyncVars, runVars>>

InitCall ==
    /\ NoPipeline
    /\ NoResync
    /\ NoRuns
    /\ call \in CropCalls \cup DefaultSpeakerCalls \cup ClusteringCalls
                  \cup ClusterSpeakerCalls \cup EstimateCalls \cup SamplePointCalls
                  \cup DetectCalls \cup JobCalls
                  \cup {c \in PassCalls :
                           Len(c.finds) = Len(detection_passes(c.estimated_speakers))}
    /\ ret = None

NextCall ==
    \/ CallCalculateCropZone
    \/ CallCreateDefaultSpeakers
    \/ CallImprovedFaceClustering
    \/ CallClusterFacesIntoSpeakers
    \/ CallEstimateSpeakers
    \/ CallSamplePoints
    \/ DetectFacesAtFrames
    \/ SmartCluster
    \/ DetectFacesEnhanced
    \/ DetectSpeakersPlain
    \/ ProcessClipGeneration
    \/ CallDetectionPasses

SpecCall == InitCall /\ [][NextCall]_vars

\* a transcript is written to its .srt file and read back
InitSrt ==
    /\ NoPipeline
    /\ NoResync
    /\ NoRuns
    /\ \E n \in 0..MaxCues : \E texts \in [1..n -> SrtTexts] :
          call = [fn |-> "transcribe_audio", segments |-> Segments(texts)]
    /\ ret = None

NextSrt ==
    \/ CallTranscribeAudio
    \/ CallExtractCaptionsFromSrt

SpecSrt == InitSrt /\ [][NextSrt]_vars

(***************************************************************************)
(* Caption re-synchronization of one job: update_captions (routes/api.py)  *)
(* starts a thread running regenerate_video_background_ass                 *)
(* (services/job_service.py) for every request.                            *)
(***************************************************************************)
\* lines 137-144 of process_clip_generation: the duration the clip is cut with
ActualDuration(job_duration, selection) ==
    IF selection # None THEN RSub(selection.end_time, selection.start_time)
    ELSE job_duration

\* the ClipJob after process_clip_generation completed: job.duration is the
\* requested duration, clip_data['duration'] the duration the clip has
ClipJob(job_duration, selection, subtitle_file) ==
    [tag |-> "job",
     duration |-> job_duration,
     clip_duration |-> ActualDuration(job_duration, selection),
     subtitle_file |-> subtitle_file,
     regeneration_status |-> "None",
     regeneration_progress |-> 0,
     regeneration_job_id |-> 0,
     caption_updates |-> 0]

\* a file: written completely by writer `by` (0: the pipeline), or not
File(state, by) == [tag |-> "file", state |-> state, by |-> by]

\* the cues the transcriber found in a clip of duration D: m cues of equal
\* length with a pause of a quarter of a cue before each
TranscriptCues(m, D) ==
    [k \in 1..m |->
        [start_time |-> RDivInt(RMulInt(D, 4 * k - 3), 4 * m),
         end_time |-> RDivInt(RMulInt(D, k), m)]]

\* update_captions_ass (called at job_service.py:254): the timings of n
\* edited cues for the target duration T; the original cadence stretched
\* onto [0, T) when the cue counts match, an even split otherwise
update_captions_ass(cues, n, T) ==
    LET first == cues[1].start_time
        span == RSub(cues[Len(cues)].end_time, first)
        Stretch(t) == Rat(RSub(t, first)[1] * T[1] * span[2],
                          RSub(t, first)[2] * T[2] * span[1])
    IN  IF Len(cues) = n
        THEN [k \in 1..n |-> [start_time |-> Stretch(cues[k].start_time),
                              end_time |-> Stretch(cues[k].end_time)]]
        ELSE [k \in 1..n |-> [start_time |-> RDivInt(RMulInt(T, k - 1), n),
                              end_time |-> RDivInt(RMulInt(T, k), n)]]

\* a step of a caption update touches nothing of the pipeline
PipelineIdle ==
    UNCHANGED <<pc, entry, start_time, duration, speakers, segment_durations,
                i, current_time, segments, temp_segments, missing, files,
                output, success, clip_data, call, ret, detection, runVars>>

\* thread t moves to position p (and sets its local `success`)
Moved(t, p, ok) == [regen EXCEPT ![t].pc = p, ![t].success = ok]

\* api.py lines 114-167: a caption update is requested for the job; the
\* thread is started whatever the job's regeneration_status is
UpdateCaptionsRequest ==
    /\ job # None
    /\ Len(regen) < MaxRequests
    /\ \E n \in 1..(MaxCues + 1) :
          regen' = Append(regen, [pc |-> "start", captions |-> n,
                                  video_duration |-> None,
                                  base_video_path |-> None, success |-> FALSE])
    /\ job' = [job EXCEPT !.regeneration_job_id = Len(regen) + 1]
    /\ UNCHANGED <<video, temp_video, base_video, subtitle>>
    /\ PipelineIdle

\* lines 210-250: the status becomes 'processing'; a job without a subtitle
\* file raises
RegenStart(t) ==
    /\ t \in DOMAIN regen
    /\ regen[t].pc = "start"
    /\ job' = [job EXCEPT !.regeneration_status = "processing",
                          !.regeneration_progress =
                              IF job.subtitle_file THEN 30 ELSE 10]
    /\ regen' = Moved(t, IF job.subtitle_file THEN "update" ELSE "raise", FALSE)
    /\ UNCHANGED <<video, temp_video, base_video, subtitle>>
    /\ PipelineIdle

\* lines 252-275: update_captions_ass rewrites the subtitle file for the
\* duration job.duration, or fails
RegenUpdateCaptions(t) ==
    /\ t \in DOMAIN regen
    /\ regen[t].pc = "update"
    /\ \E ok \in BOOLEAN :
          /\ regen' = [Moved(t, IF ok THEN "burn" ELSE "raise", ok)
                         EXCEPT ![t].video_duration = job.duration]
          /\ subtitle' = IF ok
                         THEN [format |-> "ass",
                               cues |-> update_captions_ass(subtitle.cues,
                                            regen[t].captions, job.duration)]
                         ELSE subtitle
          /\ job' = IF ok THEN [job EXCEPT !.regeneration_progress = 50] ELSE job
    /\ UNCHANGED <<video, temp_video, base_video>>
    /\ PipelineIdle

\* burn_captions_into_video_debug (called at job_service.py:296): the
\* outcomes of rendering `base` for thread t; a run that succeeds leaves the
\* complete render at the output path, one that fails leaves a partial file
\* there or leaves the path as it was, and a missing base always fails
burn_captions_into_video_debug(base, output_file, t) ==
    {[success |-> FALSE, output |-> output_file]} \cup
    IF base = None THEN {}
    ELSE {[success |-> TRUE, output |-> File("complete", t)],
          [success |-> FALSE, output |-> File("partial", t)]}

\* lines 277-300: the base video is the _temp_switching / _no_captions file
\* if there is one, else the original; the burn opens it (base_video_path
\* holds what it found there) and starts writing temp_ass_path
RegenBurnBegin(t) ==
    /\ t \in DOMAIN regen
    /\ regen[t].pc = "burn"
    /\ LET base_video_path == IF base_video # None THEN base_video ELSE video
       IN  /\ temp_video' = IF base_video_path = None THEN temp_video
                             ELSE File("partial", t)
           /\ regen' = [regen EXCEPT ![t].pc = "burning",
                                     ![t].base_video_path = base_video_path]
    /\ job' = [job EXCEPT !.regeneration_progress = 70]
    /\ UNCHANGED <<video, base_video, subtitle>>
    /\ PipelineIdle

\* RegenBurnEnd without the check of lines 302-303: a failed burn goes on to
\* replace the original
RegenBurnEnd_unchecked(t) ==
    /\ t \in DOMAIN regen
    /\ regen[t].pc = "burning"
    /\ \E r \in burn_captions_into_video_debug(regen[t].base_video_path,
                                                 temp_video, t) :
          /\ temp_video' = r.output
          /\ regen' = Moved(t, "remove", r.success)
          /\ job' = [job EXCEPT !.regeneration_progress = 90]
    /\ UNCHANGED <<video, base_video, subtitle>>
    /\ PipelineIdle

\* lines 296-312: the burn returns; a failure raises
RegenBurnEnd(t) ==
    /\ t \in DOMAIN regen
    /\ regen[t].pc = "burning"
    /\ \E r \in burn_captions_into_video_debug(regen[t].base_video_path,
                                                 temp_video, t) :
          /\ temp_video' = r.output
          /\ regen' = Moved(t, IF r.success THEN "remove" ELSE "raise", r.success)
          /\ job' = IF r.success THEN [job EXCEPT !.regeneration_progress = 90]
                    ELSE job
    /\ UNCHANGED <<video, base_video, subtitle>>
    /\ PipelineIdle

\* lines 314-315: the original is removed if it exists
RegenRemoveOriginal(t) ==
    /\ t \in DOMAIN regen
    /\ regen[t].pc = "remove"
    /\ video' = None
    /\ regen' = Moved(t, "rename", regen[t].success)
    /\ UNCHANGED <<job, temp_video, base_video, subtitle>>
    /\ PipelineIdle

\* line 317: os.rename(temp_ass_path, original_video_path); raises when the
\* temporary file is not there
RegenRename(t) ==
    /\ t \in DOMAIN regen
    /\ regen[t].pc = "rename"
    /\ IF temp_video = None
       THEN /\ regen' = Moved(t, "raise", regen[t].success)
            /\ UNCHANGED <<video, temp_video>>
       ELSE /\ regen' = Moved(t, "finish", regen[t].success)
            /\ video' = temp_video
            /\ temp_video' = None
    /\ UNCHANGED <<job, base_video, subtitle>>
    /\ PipelineIdle

\* lines 319-336: the update is recorded and the status becomes 'completed'
RegenFinish(t) ==
    /\ t \in DOMAIN regen
    /\ regen[t].pc = "finish"
    /\ job' = [job EXCEPT !.caption_updates = regen[t].captions,
                          !.regeneration_status = "completed",
                          !.regeneration_progress = 100]
    /\ regen' = Moved(t, "completed", regen[t].success)
    /\ UNCHANGED <<video, temp_video, base_video, subtitle>>
    /\ PipelineIdle

\* lines 338-351: the exception handler sets the status to 'failed'
RegenFailed(t) ==
    /\ t \in DOMAIN regen
    /\ regen[t].pc = "raise"
    /\ job' = [job EXCEPT !.regeneration_status = "failed",
                          !.regeneration_progress = 0]
    /\ regen' = Moved(t, "failed", regen[t].success)
    /\ UNCHANGED <<video, temp_video, base_video, subtitle>>
    /\ PipelineIdle

\* the jobs caption updates are requested for: the requested duration and
\* the manual selection (api.py lines 20-50)
ResyncJobs ==
    {<<Rat(30, 1), None>>, <<Rat(12, 1), None>>,
     <<Rat(30, 1), [start_time |-> Rat(10, 1), end_time |-> Rat(22, 1)]>>}

\* a job whose clip was generated, with or without a subtitle file, and no
\* caption update requested yet
InitResync ==
    /\ NoPipeline
    /\ NoRuns
    /\ call = None
    /\ ret = None
    /\ regen = <<>>
    /\ temp_video = None
    /\ video = File("complete", 0)
    /\ base_video \in {None, File("complete", 0)}
    /\ \E j \in ResyncJobs : \E m \in 0..MaxCues :
          /\ job = ClipJob(j[1], j[2], m > 0)
          /\ subtitle = [format |-> "srt",
                         cues |-> TranscriptCues(m, ActualDuration(j[1], j[2]))]

NextResync ==
    \/ UpdateCaptionsRequest
    \/ \E t \in 1..MaxRequests :
          \/ RegenStart(t)
          \/ RegenUpdateCaptions(t)
          \/ RegenBurnBegin(t)
          \/ RegenBurnEnd(t)
          \/ RegenRemoveOriginal(t)
          \/ RegenRename(t)
          \/ RegenFinish(t)
          \/ RegenFailed(t)

SpecResync == InitResync /\ [][NextResync]_vars

(***************************************************************************)
(* The generation thread of a job (process_clip_generation) and the        *)
(* requests that read the job while it runs (job_status, edit_page).       *)
(***************************************************************************)
\* helpers.py lines 67-78: the cue list read from the subtitle file of a
\* clip, [] when there is none
extract_caption_data(clip) ==
    IF clip.subtitle_file = "srt" THEN "cues" ELSE "empty"

\* lines 125-147: ClipJob.__init__ left status 'starting', clip_data {} and
\* error None; the thread reports 'processing'
JobStart ==
    /\ pc = "job_start"
    /\ job' = [job EXCEPT !.status = "processing", !.progress = 20]
    /\ pc' = "job_generate"
    /\ UNCHANGED <<entry, start_time, duration, speakers, segment_durations, i,
                   current_time, segments, temp_segments, missing, files, output,
                   success, clip_data, call, ret, detection, regen, video,
                   temp_video, base_video, subtitle, runVars>>

\* lines 151-176: the pipeline call returns a clip or None, or raises; the
\* clip has the duration it was cut with
JobGenerate ==
    /\ pc = "job_generate"
    /\ IF call.outcome \in {"clip", "clip_without_transcript"}
       THEN /\ job' = [job EXCEPT !.generated_clips =
                         <<[ClipData(create_default_speakers(1920, 1080),
                                     call.outcome = "clip")
                              EXCEPT !.duration = ActualDuration(call.duration,
                                                                 call.selection)]>>]
            /\ pc' = "job_store"
       ELSE /\ job' = job
            /\ pc' = IF call.outcome = "none" THEN "job_failed" ELSE "job_raised"
    /\ UNCHANGED <<entry, start_time, duration, speakers, segment_durations, i,
                   current_time, segments, temp_segments, missing, files, output,
                   success, clip_data, call, ret, detection, regen, video,
                   temp_video, base_video, subtitle, runVars>>

\* lines 178-180: job.clip_data = clip_data
JobStoreClipData ==
    /\ pc = "job_store"
    /\ job' = [job EXCEPT !.clip_data = job.generated_clips[1]]
    /\ pc' = "job_completed"
    /\ UNCHANGED <<entry, start_time, duration, speakers, segment_durations, i,
                   current_time, segments, temp_segments, missing, files, output,
                   success, clip_data, call, ret, detection, regen, video,
                   temp_video, base_video, subtitle, runVars>>

\* JobCompleted that leaves the status as it is
JobCompleted_unreported ==
    /\ pc = "job_completed"
    /\ job' = [job EXCEPT !.progress = 100]
    /\ pc' = "job_captions"
    /\ UNCHANGED <<entry, start_time, duration, speakers, segment_durations, i,
                   current_time, segments, temp_segments, missing, files, output,
                   success, clip_data, call, ret, detection, regen, video,
                   temp_video, base_video, subtitle, runVars>>

\* line 181: update_job_progress(job_id, "completed", 100, ...)
JobCompleted ==
    /\ pc = "job_completed"
    /\ job' = [job EXCEPT !.status = "completed", !.progress = 100]
    /\ pc' = "job_captions"
    /\ UNCHANGED <<entry, start_time, duration, speakers, segment_durations, i,
                   current_time, segments, temp_segments, missing, files, output,
                   success, clip_data, call, ret, detection, regen, video,
                   temp_video, base_video, subtitle, runVars>>

\* lines 183-196: job.clip_data['captions'] = extract_caption_data(clip_data);
\* clip_data is the first dictionary of generated_clips
JobCaptions ==
    /\ pc = "job_captions"
    /\ LET clip == [job.clip_data EXCEPT !.captions = extract_caption_data(job.clip_data)]
       IN  job' = [job EXCEPT !.clip_data = clip, !.generated_clips = <<clip>>]
    /\ pc' = "job_end"
    /\ UNCHANGED <<entry, start_time, duration, speakers, segment_durations, i,
                   current_time, segments, temp_segments, missing, files, output,
                   success, clip_data, call, ret, detection, regen, video,
                   temp_video, base_video, subtitle, runVars>>

\* lines 197-203: no clip was returned, or an exception was caught: job.error
\* is set and the status becomes 'error'
JobError ==
    /\ pc \in {"job_failed", "job_raised"}
    /\ job' = [job EXCEPT !.error = IF pc = "job_failed"
                                    THEN Value("Clip generation failed")
                                    ELSE Value("str(e)"),
                          !.status = "error", !.progress = 0]
    /\ pc' = "job_end"
    /\ UNCHANGED <<entry, start_time, duration, speakers, segment_durations, i,
                   current_time, segments, temp_segments, missing, files, output,
                   success, clip_data, call, ret, detection, regen, video,
                   temp_video, base_video, subtitle, runVars>>

\* api.py lines 59-88: a poll returns the job's status, clip_data and error
job_status ==
    /\ job # None /\ job.tag = "generation"
    /\ ret' = Value([reader |-> "job_status", status |-> job.status,
                     clip_data |-> job.clip_data, error |-> job.error])
    /\ UNCHANGED <<pc, job, entry, start_time, duration, speakers,
                   segment_durations, i, current_time, segments, temp_segments,
                   missing, files, output, success, clip_data, call, detection,
                   regen, video, temp_video, base_video, subtitle, runVars>>

\* pages.py lines 49-86: the edit page of a job that is 'completed' renders
\* its clip_data; any other status redirects
edit_page ==
    /\ job # None /\ job.tag = "generation"
    /\ job.status = "completed"
    /\ ret' = Value([reader |-> "edit_page", status |-> job.status,
                     clip_data |-> job.clip_data, error |-> job.error])
    /\ UNCHANGED <<pc, job, entry, start_time, duration, speakers,
                   segment_durations, i, current_time, segments, temp_segments,
                   missing, files, output, success, clip_data, call, detection,
                   regen, video, temp_video, base_video, subtitle, runVars>>

\* api.py lines 29-50: a job is created with a requested duration and maybe
\* a manual selection, and its thread is started; the pipeline call of the
\* thread will return a clip (transcribed or not) or None, or raise
InitJob ==
    /\ pc = "job_start"
    /\ entry = "none"
    /\ start_time = RInt(0)
    /\ duration = RInt(0)
    /\ Fresh
    /\ NoRuns
    /\ regen = <<>>
    /\ video = None
    /\ temp_video = None
    /\ base_video = None
    /\ subtitle = <<>>
    /\ \E j \in {<<RInt(30), None>>, <<RInt(12), None>>,
                 <<RInt(30), [start_time |-> RInt(10), end_time |-> RInt(22)]>>} :
          \E o \in {"clip", "clip_without_transcript", "none", "raises"} :
              call = [fn |-> "process_clip_generation", duration |-> j[1],
                      selection |-> j[2], outcome |-> o]
    /\ ret = None
    /\ job = [tag |-> "generation", status |-> "starting", progress |-> 0,
              clip_data |-> [tag |-> "empty"], generated_clips |-> <<>>,
              error |-> None]

NextJob ==
    \/ JobStart
    \/ JobGenerate
    \/ JobStoreClipData
    \/ JobCompleted
    \/ JobCaptions
    \/ JobError
    \/ job_status
    \/ edit_page

SpecJob == InitJob /\ [][NextJob]_vars

\* the thread of a job is scheduled until it ends, and its pipeline call
\* returns or raises
SpecJobFair ==
    SpecJob /\ WF_vars(JobStart \/ JobGenerate \/ JobStoreClipData \/ JobCompleted
                           \/ JobCaptions \/ JobError)

(***************************************************************************)
(* The intermediate files of concurrently running pipeline invocations     *)
(* (detect_speakers_from_segment, create_viral_clip_with_speaker_switching)*)
(***************************************************************************)
\* line 172: os.path.join('clips', f'temp_analysis_{start_time}s.mp4')
temp_clip_path(run_start) == "clips/temp_analysis_" \o ToString(run_start) \o "s.mp4"

\* line 190: temp_clip_path.replace('.mp4', '_audio.wav')
audio_path(run_start) == "clips/temp_analysis_" \o ToString(run_start) \o "s_audio.wav"

\* line 799: os.path.join('clips', f'viral_seg_{i}.mp4')
temp_segment(k) == "clips/viral_seg_" \o ToString(k) \o ".mp4"

\* line 827: os.path.join('clips', 'viral_concat_list.txt')
concat_file == "clips/viral_concat_list.txt"

\* run r uses the paths ps and moves to position p
Touch(r, ps, p) ==
    /\ r \in DOMAIN runs
    /\ runs' = [runs EXCEPT ![r].pc = p]
    /\ touched' = touched \cup {[run |-> r, path |-> q] : q \in ps}
    /\ UNCHANGED <<pc, entry, start_time, duration, speakers, segment_durations,
                   i, current_time, segments, temp_segments, missing, files,
                   output, success, clip_data, call, ret, detection, resyncVars>>

\* generate_viral_clip is called (by a job's thread) while others may run
StartRun ==
    /\ Len(runs) < MaxRuns
    /\ \E run_start \in {0, 10} : \E n \in 1..MaxSegments :
          runs' = Append(runs, [pc |-> "analysis", start_time |-> run_start,
                                segments |-> n, i |-> 0])
    /\ UNCHANGED <<pc, entry, start_time, duration, speakers, segment_durations,
                   i, current_time, segments, temp_segments, missing, files,
                   output, success, clip_data, call, ret, detection, resyncVars,
                   touched>>

\* lines 172-182: the analysis clip is written
RunWriteTempClip(r) ==
    /\ r \in DOMAIN runs /\ runs[r].pc = "analysis"
    /\ Touch(r, {temp_clip_path(runs[r].start_time)}, "audio")

\* lines 190-211: the audio is extracted from the analysis clip, transcribed
\* and removed
RunAnalyzeAudio(r) ==
    /\ r \in DOMAIN runs /\ runs[r].pc = "audio"
    /\ Touch(r, {temp_clip_path(runs[r].start_time),
                 audio_path(runs[r].start_time)}, "detect")

\* lines 217-221: the faces are sampled from the analysis clip, which is
\* then removed
RunDetectAndRemove(r) ==
    /\ r \in DOMAIN runs /\ runs[r].pc = "detect"
    /\ Touch(r, {temp_clip_path(runs[r].start_time)}, "segment")

\* lines 799-818: segment i is rendered to its temporary file
RunRenderSegment(r) ==
    /\ r \in DOMAIN runs /\ runs[r].pc = "segment"
    /\ runs[r].i < runs[r].segments
    /\ runs' = [runs EXCEPT ![r].i = @ + 1]
    /\ touched' = touched \cup {[run |-> r, path |-> temp_segment(runs[r].i)]}
    /\ UNCHANGED <<pc, entry, start_time, duration, speakers, segment_durations,
                   i, current_time, segments, temp_segments, missing, files,
                   output, success, clip_data, call, ret, detection, resyncVars>>

\* lines 827-830: the concat manifest is written
RunWriteConcatFile(r) ==
    /\ r \in DOMAIN runs /\ runs[r].pc = "segment"
    /\ runs[r].i = runs[r].segments
    /\ Touch(r, {concat_file}, "concat")

\* lines 833-852: the manifest and the segments are read by the concat, then
\* removed
RunConcatAndCleanUp(r) ==
    /\ r \in DOMAIN runs /\ runs[r].pc = "concat"
    /\ Touch(r, {concat_file} \cup {temp_segment(k) : k \in 0..(runs[r].segments - 1)},
             "cleanup")

\* the invocation returns: it is no longer running
RunReturn(r) ==
    /\ r \in DOMAIN runs /\ runs[r].pc = "cleanup"
    /\ runs' = [runs EXCEPT ![r].pc = "done"]
    /\ touched' = {e \in touched : e.run # r}
    /\ UNCHANGED <<pc, entry, start_time, duration, speakers, segment_durations,
                   i, current_time, segments, temp_segments, missing, files,
                   output, success, clip_data, call, ret, detection, resyncVars>>

InitRuns ==
    /\ NoPipeline
    /\ NoResync
    /\ NoRuns
    /\ call = None
    /\ ret = None

NextRuns ==
    \/ StartRun
    \/ \E r \in 1..MaxRuns :
          \/ RunWriteTempClip(r)
          \/ RunAnalyzeAudio(r)
          \/ RunDetectAndRemove(r)
          \/ RunRenderSegment(r)
          \/ RunWriteConcatFile(r)
          \/ RunConcatAndCleanUp(r)
          \/ RunReturn(r)

SpecRuns == InitRuns /\ [][NextRuns]_vars

(***************************************************************************)
(* Properties.                                                             *)
(***************************************************************************)
\* offset of segment k (1-based) of a schedule: the sum of the durations before it
OffsetOf(durs, k) == RSum(SubSeq(durs, 1, k - 1))

\* C1: for every duration D > 0 and speaker count K in 1..3 the scheduled
\* segments cover [0, D) without gap or overlap: every segment has a positive
\* length, the first starts at offset 0, each later one starts where the
\* previous one ends (every render issued by the loop starts at start_time
\* plus the sum of the durations before it), and the durations sum to D.
C1_ScheduleCoversDuration ==
    pc = "render" =>
        /\ \A k \in 1..Len(segment_durations) : RLess(RInt(0), segment_durations[k])
        /\ RSum(segment_durations) = duration
        /\ Len(segments) = i
        /\ \A k \in 1..Len(segments) :
              /\ segments[k].start = RAdd(start_time, OffsetOf(segment_durations, k))
              /\ segments[k].dur = segment_durations[k]
        /\ current_time = OffsetOf(segment_durations, i + 1)
        /\ (i = Len(segment_durations) => current_time = duration)

\* a three-speaker schedule with a remainder segment has been rendered to its end
C1_Witness ==
    /\ pc = "render"
    /\ Len(speakers) = 3
    /\ duration = RInt(22)
    /\ i = Len(segment_durations)
    /\ Len(segments) = 6
    /\ segments[6].start = RAdd(start_time, RInt(20))

\* the reference rule of the scheduler for K >= 2, written position by position
ReferenceDurations(D, K) ==
    LET base == IF K = 2 THEN 6 ELSE 4
        \* floor(D / base)
        full == CHOOSE n \in 0..(D[1] + 1) :
                    /\ n * base * D[2] <= D[1]
                    /\ D[1] < (n + 1) * base * D[2]
        remainder == RSub(D, RInt(full * base))
    IN  IF full = 0 THEN <<D>>
        ELSE IF RLeq(remainder, RInt(1))
             THEN [k \in 1..full |-> Rat(D[1], D[2] * full)]
             ELSE [k \in 1..(full + 1) |-> IF k <= full THEN RInt(base) ELSE remainder]

\* C2: for K >= 2 the list of segment durations equals the reference rule;
\* D = 25, K = 2 gives four segments of 6.25 and D = 22, K = 3 gives
\* [4, 4, 4, 4, 4, 2].
C2_DurationsFollowReferenceRule ==
    (pc = "render" /\ Len(speakers) >= 2) =>
        /\ segment_durations = ReferenceDurations(duration, Len(speakers))
        /\ (duration = RInt(25) /\ Len(speakers) = 2
              => segment_durations = <<Rat(25, 4), Rat(25, 4), Rat(25, 4), Rat(25, 4)>>)
        /\ (duration = RInt(22) /\ Len(speakers) = 3
              => segment_durations = <<RInt(4), RInt(4), RInt(4), RInt(4), RInt(4), RInt(2)>>)

\* the 25 s schedule for two speakers has been computed: remainder exactly 1.0
C2_Witness ==
    /\ pc = "render"
    /\ Len(speakers) = 2
    /\ duration = RInt(25)
    /\ Len(segment_durations) = 4

\* C3: with exactly one speaker the schedule is the single segment [D], the
\* loop issues at most one render, and that render spans the whole duration
\* from start_time with the crop of speaker 0.
C3_SingleSpeakerSingleSegment ==
    (pc = "render" /\ Len(speakers) = 1) =>
        /\ segment_durations = <<duration>>
        /\ speakers[1].id = 0
        /\ Len(segments) <= 1
        /\ \A k \in 1..Len(segments) :
              segments[k] = Render(0, start_time, duration, 0,
                                   <<speakers[1].crop_zone[1], speakers[1].crop_zone[2]>>)

\* a single-speaker schedule longer than both base lengths has been rendered
C3_Witness ==
    /\ pc = "render"
    /\ Len(speakers) = 1
    /\ RLess(RInt(12), duration)
    /\ Len(segments) = 1
    /\ i = Len(segment_durations)

\* C4: for K >= 2 segment i (0-based) is rendered with the crop of the primary
\* speaker (id 0) when i % 3 = 0 and otherwise of the speaker with id
\* (i // 3) % (K-1) + 1; the id is a valid index in 0..K-1 and the speaker at
\* that index carries that id.
C4_AnchorRuleAssignment ==
    (pc = "render" /\ Len(speakers) \in 2..3) =>
        \A k \in 1..Len(segments) :
            LET idx == k - 1
                K == Len(speakers)
                expected == IF idx % 3 = 0 THEN 0 ELSE ((idx \div 3) % (K - 1)) + 1
            IN  /\ segments[k].index = idx
                /\ segments[k].speaker_id = expected
                /\ expected \in 0..(K - 1)
                /\ speakers[expected + 1].id = expected
                /\ segments[k].crop = <<speakers[expected + 1].crop_zone[1],
                                        speakers[expected + 1].crop_zone[2]>>

\* a three-speaker schedule has reached its second cycle: segment 4 shows speaker 2
C4_Witness ==
    /\ pc = "render"
    /\ Len(speakers) = 3
    /\ Len(segments) >= 6
    /\ segments[5].speaker_id = 2
    /\ segments[4].speaker_id = 0
    /\ segments[2].speaker_id = 1

\* the speaker ids of a list of renders
SpeakerIds(renders) == [k \in 1..Len(renders) |-> renders[k].speaker_id]

IsPrefix(p, q) == Len(p) <= Len(q) /\ p = SubSeq(q, 1, Len(p))

\* the run assembled a clip from all of its per-segment files
AssembledInFull ==
    /\ output.tag = "video"
    /\ output.kind = "concat"
    /\ missing = 0

\* C5 as stated: a run with exactly 2 clustered speakers and a 25 s clip
\* renders exactly 4 segments assigned [0, 1, 0, 1], and the ClipArtifact has
\* dynamic_cropping = True.
C5_Original ==
    (Len(speakers) = 2 /\ duration = RInt(25) /\ AssembledInFull
        /\ clip_data.tag = "clip") =>
        /\ Len(output.parts) = 4
        /\ SpeakerIds(output.parts) = <<0, 1, 0, 1>>
        /\ clip_data.dynamic_cropping

\* C5 (amended): a run with exactly 2 clustered speakers and a 25 s clip
\* schedules exactly 4 segments whose speaker assignment in schedule order is
\* [0, 1, 1, 0] (anchor rule i % 3 = 0): the renders issued follow it, a clip
\* assembled from all per-segment files consists of exactly these 4 segments,
\* and any resulting ClipArtifact has dynamic_cropping = True.
C5_TwoSpeakers25s ==
    (Len(speakers) = 2 /\ duration = RInt(25)) =>
        /\ pc = "render" =>
              /\ Len(segment_durations) = 4
              /\ IsPrefix(SpeakerIds(segments), <<0, 1, 1, 0>>)
        /\ AssembledInFull =>
              /\ Len(output.parts) = 4
              /\ SpeakerIds(output.parts) = <<0, 1, 1, 0>>
        /\ clip_data.tag = "clip" =>
              /\ clip_data.dynamic_cropping
              /\ clip_data.speakers_detected = 2

\* a 25 s clip of two speakers has been assembled in full and returned
C5_Witness ==
    /\ pc = "done"
    /\ clip_data.tag = "clip"
    /\ Len(speakers) = 2
    /\ duration = RInt(25)
    /\ AssembledInFull
    /\ Len(output.parts) = 4

\* C6: in a run of generate in which exactly one speaker is detected exactly
\* one segment is rendered, spanning the whole requested duration, and the
\* ClipArtifact has speakers_detected = 1 and dynamic_cropping = False; in
\* every ClipArtifact dynamic_cropping is True exactly when
\* speakers_detected >= 2.
C6_SingleSpeakerRun ==
    /\ (Len(speakers) = 1 /\ pc \in {"created", "done", "raised"}) =>
          /\ Len(segments) = 1
          /\ segments[1].start = start_time
          /\ segments[1].dur = duration
          /\ segments[1].speaker_id = 0
          /\ output.tag = "video" /\ output.kind = "single" => output.parts = segments
    /\ clip_data.tag = "clip" =>
          /\ Len(speakers) = 1 =>
                clip_data.speakers_detected = 1 /\ ~clip_data.dynamic_cropping
          /\ clip_data.dynamic_cropping <=> clip_data.speakers_detected >= 2

\* a single-speaker run longer than 10 s has returned its ClipArtifact
C6_Witness ==
    /\ pc = "done"
    /\ clip_data.tag = "clip"
    /\ Len(speakers) = 1
    /\ duration = RInt(25)
    /\ Len(segments) = 1
    /\ output.tag = "video"

\* C7 as stated: for every speaker centre, source size and position class
\* 0 <= crop_x <= scaled_width - target_width.
C7_Original ==
    Returned("calculate_crop_zone") =>
        /\ 0 <= ret.value[1]
        /\ ret.value[1] <= ScaledWidth(call.video_width, call.video_height) - target_width

\* C7 (amended): 0 <= crop_x <= max(0, scaled_width - target_width): the
\* bound of the claim when the scaled source is at least as wide as the
\* target, and crop_x = 0 when it is narrower.
C7_CropWithinBounds ==
    Returned("calculate_crop_zone") =>
        /\ 0 <= ret.value[1]
        /\ ret.value[1] <= Max2(0, ScaledWidth(call.video_width, call.video_height)
                                      - target_width)

\* a left speaker whose ideal crop lies beyond the right edge: the upper clamp acts
C7_Witness ==
    /\ Returned("calculate_crop_zone")
    /\ call.position = "left"
    /\ ScaledWidth(call.video_width, call.video_height) > target_width
    /\ IntTrunc(call.face_x * target_height, call.video_height) - IntTrunc(target_width * 6, 10)
          > ScaledWidth(call.video_width, call.video_height) - target_width
    /\ ret.value[1] = ScaledWidth(call.video_width, call.video_height) - target_width

\* C8: every crop zone returned by Crop Geometry and every crop zone held by
\* a Speaker, detected or default, for any source size and position class,
\* is (crop_x, 0, 1080, 1920).
C8_CropZoneShape ==
    LET Shaped(z) == Len(z) = 4 /\ z[2] = 0 /\ z[3] = 1080 /\ z[4] = 1920
    IN  /\ Returned("calculate_crop_zone") => Shaped(ret.value)
        /\ (Returned("create_default_speakers") \/ Returned("cluster_faces_into_speakers")) =>
              /\ ret.value # <<>>
              /\ \A k \in 1..Len(ret.value) : Shaped(ret.value[k].crop_zone)

\* the default speaker of a source narrower than the target has been created
C8_Witness ==
    /\ Returned("create_default_speakers")
    /\ ScaledWidth(call.width, call.height) < target_width
    /\ ret.value[1].crop_zone = <<0, 0, 1080, 1920>>

\* the normalized centres of two detections differ by less than 0.15 in both axes
CentersWithin(a, b, width, height) ==
    /\ 100 * Abs(a.center_x - b.center_x) < 15 * width
    /\ 100 * Abs(a.center_y - b.center_y) < 15 * height

\* the normalized centres of two detections differ by more than 0.15 in some axis
CentersBeyond(a, b, width, height) ==
    \/ 100 * Abs(a.center_x - b.center_x) > 15 * width
    \/ 100 * Abs(a.center_y - b.center_y) > 15 * height

\* min(a, b) / max(a, b) > 0.4 for the sizes w*h of two detections
SizeRatioAbove(a, b) ==
    10 * Min2(a.w * a.h, b.w * b.h) > 4 * Max2(a.w * a.h, b.w * b.h)

Members(cluster) == {cluster[k] : k \in 1..Len(cluster)}

\* the number of the cluster that holds detection idx
ClusterOf(clusters, idx) ==
    CHOOSE c \in 1..Len(clusters) : idx \in Members(clusters[c])

\* C9 as stated: any two detections within 0.15 in both axes and with size
\* ratio above 0.4 end up in the same cluster.
C9_Original ==
    Returned("improved_face_clustering") =>
        \A a, b \in 1..Len(call.faces) :
            (/\ CentersWithin(call.faces[a], call.faces[b], call.width, call.height)
             /\ SizeRatioAbove(call.faces[a], call.faces[b]))
                => ClusterOf(ret.value, a) = ClusterOf(ret.value, b)

\* C9 (amended): a detection within 0.15 in both axes of a cluster's seed
\* (its first, largest member) and with size ratio to the seed above 0.4 is
\* in that seed's cluster unless an earlier cluster has absorbed it; two such
\* detections given alone form one cluster.
C9_MergedWithSeed ==
    Returned("improved_face_clustering") =>
        /\ \A c \in 1..Len(ret.value) : \A b \in 1..Len(call.faces) :
              (/\ CentersWithin(call.faces[ret.value[c][1]], call.faces[b],
                                call.width, call.height)
               /\ SizeRatioAbove(call.faces[ret.value[c][1]], call.faces[b]))
                  => ClusterOf(ret.value, b) <= c
        /\ (/\ Len(call.faces) = 2
            /\ CentersWithin(call.faces[1], call.faces[2], call.width, call.height)
            /\ SizeRatioAbove(call.faces[1], call.faces[2]))
              => Len(ret.value) = 1

\* a detection close to the seed of the second cluster sits in the first
\* cluster, next to a seed it is also close to
C9_Witness ==
    /\ Returned("improved_face_clustering")
    /\ Len(ret.value) = 2
    /\ Len(ret.value[1]) = 2
    /\ CentersWithin(call.faces[ret.value[2][1]], call.faces[ret.value[1][2]],
                     call.width, call.height)
    /\ SizeRatioAbove(call.faces[ret.value[2][1]], call.faces[ret.value[1][2]])

\* C10 as stated: no cluster contains two detections whose normalized centres
\* differ by more than 0.15 in either axis.
C10_Original ==
    Returned("improved_face_clustering") =>
        \A c \in 1..Len(ret.value) : \A a, b \in Members(ret.value[c]) :
            ~CentersBeyond(call.faces[a], call.faces[b], call.width, call.height)

\* C10 (amended): no cluster contains a detection whose normalized centre
\* differs from that of the cluster's seed by 0.15 or more in either axis, so
\* two detections of one cluster differ by less than 0.30 in each axis.
C10_WithinSeedRadius ==
    Returned("improved_face_clustering") =>
        \A c \in 1..Len(ret.value) : \A a, b \in Members(ret.value[c]) :
            /\ CentersWithin(call.faces[ret.value[c][1]], call.faces[a],
                             call.width, call.height)
            /\ 100 * Abs(call.faces[a].center_x - call.faces[b].center_x) < 30 * call.width
            /\ 100 * Abs(call.faces[a].center_y - call.faces[b].center_y) < 30 * call.height

\* a seed has absorbed detections on both sides of it that are beyond 0.15
\* of each other
C10_Witness ==
    /\ Returned("improved_face_clustering")
    /\ Len(ret.value) = 1
    /\ Len(ret.value[1]) = 3
    /\ CentersBeyond(call.faces[ret.value[1][2]], call.faces[ret.value[1][3]],
                     call.width, call.height)

\* C11 as stated: the speaker list that detection hands to the scheduler and
\* the assembler is never empty, and whenever the detector produced no face,
\* the dimensions were unreadable or detection failed, it is exactly one
\* default speaker with id 0, placed at the frame centre, whose crop zone is
\* the crop computed for the frame centre.
C11_SpeakerListNeverEmpty ==
    (entry = "generate" /\ detection # None) =>
        /\ speakers # <<>>
        /\ (detection.kind # "clustered" \/ detection.faces = <<>>) =>
              /\ Len(speakers) = 1
              /\ speakers[1].id = 0
              /\ speakers[1].center_x = detection.width \div 2
              /\ speakers[1].center_y = detection.height \div 2
              /\ speakers[1].crop_zone =
                    calculate_crop_zone(detection.width \div 2, detection.height \div 2,
                                        detection.width, detection.height, "center")

\* create_viral_clip_with_speaker_switching has returned
AssemblerReturned ==
    /\ segment_durations # <<>>
    /\ pc \in {"created", "done"}

\* the render the schedule prescribes for segment k (1-based)
ScheduledRender(k) ==
    [index |-> k - 1,
     start |-> RAdd(start_time, OffsetOf(segment_durations, k)),
     dur |-> segment_durations[k]]

\* C12 as stated, for the assembler's own concatenation: when it reports
\* success the artifact is the concatenation of every scheduled segment, each
\* exactly once and in schedule order, and a run in which a scheduled segment
\* was not rendered reports failure.
C12_SuccessOnlyForCompleteClip ==
    AssemblerReturned =>
        /\ (success /\ output.kind = "concat") =>
              /\ Len(output.parts) = Len(segment_durations)
              /\ \A k \in 1..Len(output.parts) :
                    /\ output.parts[k].index = ScheduledRender(k).index
                    /\ output.parts[k].start = ScheduledRender(k).start
                    /\ output.parts[k].dur = ScheduledRender(k).dur
        /\ missing > 0 => ~success

\* the renders of the full duration issued with the default centred crop
FallbackRenders ==
    {k \in 1..Len(segments) : segments[k].crop = <<>>}

\* C13 as stated: whenever multi-speaker assembly failed and generate reports
\* failure, exactly one fallback render of the full duration was attempted
\* before, and no step of the schedule was rendered twice.
C13_OneFallbackBeforeFailure ==
    (entry = "generate" /\ pc = "done" /\ segment_durations # <<>>
        /\ clip_data = None) =>
        /\ Cardinality(FallbackRenders) = 1
        /\ \A k \in FallbackRenders :
              segments[k].start = start_time /\ segments[k].dur = duration
        /\ \A a, b \in 1..Len(segments) \ FallbackRenders :
              segments[a].index = segments[b].index => a = b

\* a stage of the run failed: speaker detection, a segment render (its file
\* is missing after the encode) or the transcription
StageFailed ==
    \/ detection.kind = "error"
    \/ missing > 0
    \/ clip_data.subtitle_file = "None"

\* the results of the runs with the same arguments in which no stage fails
CleanResults ==
    {ClipData(s, TRUE) : s \in PipelineSpeakerLists}

\* C20 as stated: a run in which a stage failed never yields a result that
\* is indistinguishable from that of a fully successful run; it yields an
\* error (None) or a result that differs from every clean result.
C20_NoFailureLooksLikeSuccess ==
    (entry = "generate" /\ pc = "done" /\ clip_data # None /\ StageFailed) =>
        clip_data \notin CleanResults

\* C19 as stated: writing a cue list in the line-numbered block format and
\* parsing the file back yields the same number of cues, in the same order,
\* with the same text (as written, i.e. stripped), start and end (as written,
\* i.e. HH:MM:SS,mmm).
C19_SrtRoundTrip ==
    Returned("extract_captions_from_srt_fixed") =>
        /\ Len(ret.value) = Len(call.segments)
        /\ \A k \in 1..Len(ret.value) :
              /\ ret.value[k].text = Strip(call.segments[k].text)
              /\ ret.value[k].start_time = <<format_timestamp(call.segments[k].start)>>
              /\ ret.value[k].end_time = <<format_timestamp(call.segments[k].end)>>

\* C14: at every point of a caption update the job's output path holds the
\* complete previous render or a complete new one, never nothing and never
\* a partial file
C14_OutputAlwaysComplete ==
    job # None => video # None /\ video.state = "complete"

C16_OneResyncInProgress ==
    Cardinality({t \in DOMAIN regen : regen[t].pc \notin {"completed", "failed"}}) <= 1

\* C18: the cues written by a re-synchronization start at 0, are strictly
\* ordered, each has start_time < end_time, and they end at the runtime of
\* the clip, so that none is timed past it
C18_CuesWithinClip ==
    job # None /\ subtitle.format = "ass" =>
        LET cues == subtitle.cues
            T == job.clip_duration
        IN  /\ cues # <<>>
            /\ cues[1].start_time = RInt(0)
            /\ cues[Len(cues)].end_time = T
            /\ \A k \in DOMAIN cues :
                  /\ RLess(cues[k].start_time, cues[k].end_time)
                  /\ RLeq(cues[k].end_time, T)
                  /\ k > 1 => RLess(cues[k - 1].start_time, cues[k].start_time)

\* C17: no intermediate path is written, read or deleted by two pipeline
\* invocations that are running at the same time
C17_NoSharedIntermediatePath ==
    \A a \in touched : \A b \in touched : a.path = b.path => a.run = b.run

\* C22: when the scaled source is wider than the target, crop_x is the ideal
\* offset clamped to [0, scaled_width - target_width], the ideal being the
\* scaled face x minus half the target width and 5% of it for "center",
\* minus 60% of the target width for "left" and minus 40% for "right" (so
\* an unclamped left speaker sits at 60% and an unclamped right speaker at
\* 40% of the crop width); otherwise crop_x is 0
C22_CropXIsClampedIdeal ==
    Returned("calculate_crop_zone") /\ call.position \in {"center", "left", "right"} =>
        LET scaled_width == ScaledWidth(call.video_width, call.video_height)
            scaled_fx == IntTrunc(call.face_x * target_height, call.video_height)
            percent == [center |-> 55, left |-> 60, right |-> 40][call.position]
            ideal == scaled_fx - (percent * target_width) \div 100
            upper == scaled_width - target_width
            crop_x == ret.value[1]
        IN  IF scaled_width > target_width
            THEN /\ crop_x = IF ideal < 0 THEN 0 ELSE IF ideal > upper THEN upper ELSE ideal
                 /\ 0 <= ideal /\ ideal <= upper
                      => (scaled_fx - crop_x) * 100 = percent * target_width
            ELSE crop_x = 0

\* a left speaker of a 720p source placed by the unclamped ideal offset
C22_Witness ==
    /\ Returned("calculate_crop_zone")
    /\ call.position = "left"
    /\ call.video_width = 1280 /\ call.video_height = 720 /\ call.face_x = 640
    /\ ret.value[1] = 1706 - 648

\* the clusters of the detections of a returned cluster_faces_into_speakers
CallClusters == improved_face_clustering(call.faces, call.width, call.height)

\* at least 2 detections, or exactly 1 covering more than 10% of the frame
IsValidCluster(cluster) ==
    \/ Len(cluster) >= 2
    \/ /\ Len(cluster) = 1
       /\ 10 * call.faces[cluster[1]].w * call.faces[cluster[1]].h
             > call.width * call.height

\* the clusters that may become speakers: the valid ones, or all of them
\* when none is valid
Candidates ==
    LET valid == {c \in 1..Len(CallClusters) : IsValidCluster(CallClusters[c])}
    IN  IF valid = {} THEN 1..Len(CallClusters) ELSE valid

\* sum of the face sizes of the detections of cluster c
TotalWeight(c) ==
    SumOver([k \in 1..Len(CallClusters[c]) |->
                call.faces[CallClusters[c][k]].w * call.faces[CallClusters[c][k]].h])

\* the returned speaker list has a speaker at the weighted centre of cluster c
Contributes(c) ==
    LET at == ClusterSpeaker(0, call.faces, CallClusters[c], call.width, call.height)
    IN  \E k \in 1..Len(ret.value) :
           /\ ret.value[k].center_x = at.center_x
           /\ ret.value[k].center_y = at.center_y

\* C23 as stated: at most 3 clusters become speakers, and every cluster
\* left out weighs no more than any cluster kept
C23_Original ==
    Returned("cluster_faces_into_speakers") /\ call.faces # <<>> =>
        /\ Len(ret.value) <= 3
        /\ \A kept, left \in Candidates :
              Contributes(kept) /\ ~Contributes(left)
                 => TotalWeight(left) <= TotalWeight(kept)

\* C23 (amended): at most 3 clusters become speakers, as many as there are
\* candidates up to 3, and every cluster left out has a seed (its largest
\* detection) no larger than the seed of any cluster kept
C23_LargestSeedsKept ==
    Returned("cluster_faces_into_speakers") /\ call.faces # <<>> =>
        LET SeedSize(c) == call.faces[CallClusters[c][1]].w
                              * call.faces[CallClusters[c][1]].h
        IN  /\ Len(ret.value) = Min2(3, Cardinality(Candidates))
            /\ \A kept, left \in Candidates :
                  Contributes(kept) /\ ~Contributes(left)
                     => SeedSize(left) <= SeedSize(kept)

\* four valid clusters: the one left out is the heaviest, with the smallest seed
C23_Witness ==
    /\ Returned("cluster_faces_into_speakers")
    /\ Cardinality(Candidates) = 4
    /\ Len(ret.value) = 3
    /\ \E left \in Candidates :
          /\ ~Contributes(left)
          /\ Len(CallClusters[left]) = 2
          /\ \A kept \in Candidates \ {left} :
                Contributes(kept) /\ TotalWeight(kept) < TotalWeight(left)

\* C24: the speakers carry the ids 0..n-1 in ascending order of
\* 0.5 * |center_x - frame centre| / width + 0.5 * (1 - face area / frame
\* area), the face area being the average size of the speaker's detections
C24_OrderedByDistanceAndFaceArea ==
    Returned("cluster_faces_into_speakers") /\ call.faces # <<>> =>
        LET ClusterAt(s) ==
                CHOOSE c \in Candidates :
                    LET at == ClusterSpeaker(0, call.faces, CallClusters[c],
                                             call.width, call.height)
                    IN  at.center_x = s.center_x /\ at.center_y = s.center_y
            FaceArea(s) == TotalWeight(ClusterAt(s)) \div Len(CallClusters[ClusterAt(s)])
            \* the score times 2 * width * height
            Score(s) == Abs(s.center_x - call.width \div 2) * call.height
                           + (call.width * call.height - FaceArea(s))
        IN  \A k \in 1..Len(ret.value) :
               /\ ret.value[k].id = k - 1
               /\ k > 1 => Score(ret.value[k - 1]) <= Score(ret.value[k])

\* C25: a cluster becomes a speaker only if it is valid, unless no cluster
\* is valid, and then the clusters are taken as they are (the first three)
C25_OnlyValidClustersContribute ==
    Returned("cluster_faces_into_speakers") /\ call.faces # <<>> =>
        LET valid == {c \in 1..Len(CallClusters) : IsValidCluster(CallClusters[c])}
        IN  /\ valid # {} =>
                 \A c \in 1..Len(CallClusters) : Contributes(c) => c \in valid
            /\ valid = {} =>
                 \A c \in 1..Len(CallClusters) : c <= 3 => Contributes(c)

\* a large single face and a pair of detections become speakers, a small
\* single face next to them does not
C25_Witness ==
    /\ Returned("cluster_faces_into_speakers")
    /\ Len(CallClusters) = 3
    /\ Len(ret.value) = 2
    /\ \E a, b, c \in 1..3 :
          /\ Len(CallClusters[a]) = 1 /\ IsValidCluster(CallClusters[a]) /\ Contributes(a)
          /\ Len(CallClusters[b]) = 2 /\ Contributes(b)
          /\ Len(CallClusters[c]) = 1 /\ ~IsValidCluster(CallClusters[c]) /\ ~Contributes(c)

\* C27: the estimate is 3 for at least 10 segments averaging under 3 s, 2
\* for more than 3 segments averaging under 5 s that do not meet the first
\* condition, and 1 otherwise (also for no segments)
C27_EstimateFollowsRule ==
    Returned("estimate_speakers_from_segments") =>
        LET n == Len(call.segments)
            total == RSub(call.segments[n].end, call.segments[1].start)
        IN  ret.value =
               IF n = 0 THEN 1
               ELSE IF n >= 10 /\ RLess(total, RInt(3 * n)) THEN 3
               ELSE IF n > 3 /\ RLess(total, RInt(5 * n)) THEN 2
               ELSE 1

\* C28: one estimated speaker gives the 15 points i*D/15, more than one
\* give min(30, max(20, N*10)) points, and there is always at least one point
C28_SamplePointCount ==
    Returned("sample_points") =>
        /\ Len(ret.value) >= 1
        /\ call.estimated_speakers = 1 =>
              ret.value = [k \in 1..15 |-> Rat(call.duration[1] * (k - 1),
                                                call.duration[2] * 15)]
        /\ call.estimated_speakers > 1 =>
              Len(ret.value) = Min2(30, Max2(20, call.estimated_speakers * 10))

\* the points b - 0.5, b, b + 0.5 within [0, D) of the expected turns
\* b = k * turn within [0, D), for the duration and estimate of the call
BoundaryPoints ==
    LET turn == IF call.estimated_speakers = 2 THEN 5 ELSE 3
        D == call.duration
    IN  {p \in {Rat(2 * k * turn + o, 2) : k \in 0..40, o \in {-1, 0, 1}} :
            /\ \E k \in 0..40 : RLess(RInt(k * turn), D)
                                  /\ p \in {Rat(2 * k * turn + o, 2) : o \in {-1, 0, 1}}
            /\ RLeq(RInt(0), p) /\ RLess(p, D)}

\* C29 as stated: for more than one estimated speaker and any duration the
\* result has no duplicates, at most min(30, max(20, N*10)) points, and
\* every boundary point
C29_Original ==
    Returned("sample_points") /\ call.estimated_speakers > 1 =>
        /\ \A a, b \in 1..Len(ret.value) : a # b => ret.value[a] # ret.value[b]
        /\ Len(ret.value) <= Min2(30, Max2(20, call.estimated_speakers * 10))
        /\ \A p \in BoundaryPoints : \E a \in 1..Len(ret.value) : ret.value[a] = p

\* C29 (amended): the result has no duplicates, is in ascending order and
\* has at most min(30, max(20, N*10)) points; for durations of at most 24 s
\* it contains every boundary point, and for any duration every boundary
\* point below its last point
C29_BoundaryPointsUpToCap ==
    Returned("sample_points") /\ call.estimated_speakers > 1 =>
        /\ \A a, b \in 1..Len(ret.value) : a < b => RLess(ret.value[a], ret.value[b])
        /\ Len(ret.value) <= Min2(30, Max2(20, call.estimated_speakers * 10))
        /\ \A p \in BoundaryPoints :
              RLeq(call.duration, RInt(24)) \/ RLess(p, ret.value[Len(ret.value)])
                 => \E a \in 1..Len(ret.value) : ret.value[a] = p

\* a 10 s clip and two estimated speakers: the points around 0 and 5 s and
\* two random points, far fewer than the cap
C29_Witness ==
    /\ Returned("sample_points")
    /\ call.estimated_speakers = 2
    /\ call.duration = RInt(10)
    /\ ret.value = <<RInt(0), Rat(1, 2), Rat(10, 7), Rat(9, 2), RInt(5), Rat(11, 2),
                     Rat(50, 7)>>


\* C26: when the analysis clip reports a width or a height <= 0, no
\* detection pass has run on any frame before the default speaker is used
C26_NoPassOnInvalidDimensions ==
    (call # None /\ call.fn = "detect_speakers_with_smart_sampling"
        /\ (call.width <= 0 \/ call.height <= 0) /\ detection # None)
    => detection.kind \notin {"at_frames", "divided_by_zero"}

\* the detections that are handed to cluster_faces_into_speakers
ClusteredFaces ==
    IF call # None /\ call.fn = "detect_speakers_with_smart_sampling"
          /\ detection # None /\ detection.kind \in {"at_frames", "retry", "enhanced", "plain"}
          /\ call.width > 0 /\ call.height > 0
    THEN {detection.faces[k] : k \in 1..Len(detection.faces)}
    ELSE {}

\* min_ratio < face_area_ratio < 0.5 (min_ratio in hundredths),
\* 0.5 < w / h < 2.0 and both edges at least min_edge
PostFilter(face, min_ratio, min_edge) ==
    /\ RLess(Rat(min_ratio, 100), face.face_area_ratio)
    /\ RLess(face.face_area_ratio, Rat(1, 2))
    /\ RLess(Rat(1, 2), Rat(face.w, face.h)) /\ RLess(Rat(face.w, face.h), RInt(2))
    /\ face.w >= min_edge /\ face.h >= min_edge

\* the post-filter of the smart sampling and of the plain fallback
PathFilter(face) ==
    IF detection.kind = "plain" THEN PostFilter(face, 5, 150)
    ELSE IF call.estimated_speakers > 1 THEN PostFilter(face, 3, 100)
    ELSE PostFilter(face, 5, 120)

\* C30 as stated: on every path, the escalated retry included, a detection
\* that reaches the clusterer passed the post-filter
C30_Original ==
    \A face \in ClusteredFaces :
        IF detection.kind = "enhanced" THEN PostFilter(face, 3, 100)
        ELSE PathFilter(face)

\* C30: a detection that reaches the clusterer from the smart sampling or
\* the plain fallback passed the post-filter of its path; one from the
\* escalated retry has 0.02 < face_area_ratio < 0.6 and nothing more
C30_PostFilterPerPath ==
    \A face \in ClusteredFaces :
        IF detection.kind = "enhanced"
        THEN /\ RLess(Rat(2, 100), face.face_area_ratio)
             /\ RLess(face.face_area_ratio, Rat(6, 10))
        ELSE PathFilter(face)

\* a box below 100 pixels was found in multi-speaker mode and dropped by
\* the smart sampling; the detections that were kept have been clustered
\* into fewer speakers than estimated
C30_Witness ==
    /\ call # None /\ call.fn = "detect_speakers_with_smart_sampling"
    /\ call.estimated_speakers > 1
    /\ detection # None /\ detection.kind = "retry"
    /\ Len(detection.faces) = call.frames /\ call.frames > 0
    /\ \E k \in 1..Len(call.raw) : call.raw[k][3] = 90

C37_ClustersPartitionInput ==
    Returned("improved_face_clustering") =>
        LET clusters == ret.value
            Size(idx) == call.faces[idx].w * call.faces[idx].h
        IN  /\ \A idx \in 1..Len(call.faces) :
                  Cardinality({<<c, k>> \in (1..Len(clusters)) \X (1..MaxFaces + 1) :
                                  k <= Len(clusters[c]) /\ clusters[c][k] = idx}) = 1
            /\ \A c \in 1..Len(clusters) :
                  /\ clusters[c] # <<>>
                  /\ Members(clusters[c]) \subseteq 1..Len(call.faces)
                  /\ \A idx \in Members(clusters[c]) : Size(idx) <= Size(clusters[c][1])
            /\ \A c \in 1..Len(clusters) - 1 :
                  Size(clusters[c][1]) >= Size(clusters[c + 1][1])

\* detections of different sizes were given smallest first and came out
\* in two clusters, one of them with a seed and a smaller member
C37_Witness ==
    /\ Returned("improved_face_clustering")
    /\ Len(call.faces) >= 3
    /\ call.faces[1].w * call.faces[1].h < call.faces[2].w * call.faces[2].h
    /\ Len(ret.value) = 2
    /\ \E c \in 1..2 :
          /\ Len(ret.value[c]) >= 2
          /\ call.faces[ret.value[c][2]].w * call.faces[ret.value[c][2]].h
                < call.faces[ret.value[c][1]].w * call.faces[ret.value[c][1]].h

\* C36: in a schedule of more than one segment every segment is longer than
\* 1.0 s and no longer than base + 1.0 s (base 6.0 for two speakers, 4.0
\* for three or more); a segment of 1.0 s or less is the only one of its
\* schedule
C36_SegmentLengthBounds ==
    pc = "render" =>
        LET base == IF Len(speakers) = 2 THEN 6 ELSE 4
        IN  /\ (Len(speakers) >= 2 /\ Len(segment_durations) > 1) =>
                  \A k \in 1..Len(segment_durations) :
                      /\ RLess(RInt(1), segment_durations[k])
                      /\ RLeq(segment_durations[k], RInt(base + 1))
            /\ (\E k \in 1..Len(segment_durations) : RLeq(segment_durations[k], RInt(1)))
                  => Len(segment_durations) = 1

\* a three-speaker schedule ends with a remainder of 1.5 s
C36_Witness ==
    /\ pc = "render"
    /\ Len(speakers) = 3
    /\ Len(segment_durations) = 4
    /\ segment_durations[4] = Rat(3, 2)
    /\ i = Len(segment_durations)

\* C35: with two or more speakers the segments 3k+1 and 3k+2 are rendered
\* with the same non-primary speaker and crop, and the primary speaker
\* (id 0) is never given two consecutive segments
C35_PairsShareSpeaker ==
    (pc = "render" /\ Len(speakers) >= 2) =>
        \A k \in 1..Len(segments) - 1 :
            /\ segments[k].index % 3 = 1 =>
                  /\ segments[k + 1].index = segments[k].index + 1
                  /\ segments[k].speaker_id # 0
                  /\ segments[k + 1].speaker_id = segments[k].speaker_id
                  /\ segments[k + 1].crop = segments[k].crop
            /\ ~(segments[k].speaker_id = 0 /\ segments[k + 1].speaker_id = 0)

\* a two-speaker schedule has rendered segments 1 and 2 with speaker 1 and
\* gone back to the primary speaker for segment 3
C35_Witness ==
    /\ pc = "render"
    /\ Len(speakers) = 2
    /\ Len(segments) = 4
    /\ segments[2].speaker_id = 1 /\ segments[3].speaker_id = 1
    /\ segments[4].speaker_id = 0

\* C33: after a run of the assembler that returned True none of the
\* per-segment files and no concat manifest of that run exists any more
C33_NoIntermediateLeftAfterSuccess ==
    (entry = "switch" /\ pc = "done" /\ success) =>
        /\ \A k \in 0..Len(segment_durations) : <<"viral_seg", k>> \notin files
        /\ <<"viral_concat_list">> \notin files

\* C34: the target duration handed to the caption re-synchronization of a
\* job is the duration of the clip that was generated for it, also when
\* the clip was cut from a manual start/end selection
C34_TargetIsClipDuration ==
    job # None =>
        \A t \in DOMAIN regen :
            regen[t].video_duration # None
                => regen[t].video_duration = job.clip_duration

FoundBefore(p) == SumOver(SubSeq(call.finds, 1, p - 1))

\* the boxes of the passes 1..n, in the order of the passes
AccumulatedBoxes(n) ==
    LET passes == detection_passes(call.estimated_speakers)
        At(j) == CHOOSE pk \in (1..n) \X (1..MaxRaw + 1) :
                    /\ pk[2] <= call.finds[pk[1]]
                    /\ FoundBefore(pk[1]) + pk[2] = j
    IN  [j \in 1..FoundBefore(n + 1) |-> <<passes[At(j)[1]], At(j)[2]>>]

\* C31 as stated: for an estimate above 1 every pass, frontal and profile,
\* runs on the frame and all results are accumulated; for an estimate of 1
\* the passes stop as soon as one has found a face
C31_Original ==
    Returned("detection_passes") =>
        LET passes == detection_passes(call.estimated_speakers)
        IN  IF call.estimated_speakers > 1
            THEN /\ ret.value.ran = passes
                 /\ ret.value.frame_faces = AccumulatedBoxes(Len(passes))
            ELSE \A p \in 1..Len(passes) :
                     (\E q \in 1..Len(ret.value.ran) : ret.value.ran[q] = passes[p])
                         <=> FoundBefore(p) = 0

\* C31: for every estimate N the passes are tried in their order and pass p
\* runs exactly when the passes before it found fewer than N boxes for the
\* frame; the boxes of the passes that ran are accumulated in that order
C31_PassesUntilEnoughFaces ==
    Returned("detection_passes") =>
        LET passes == detection_passes(call.estimated_speakers)
            ran == ret.value.ran
        IN  /\ Len(ran) <= Len(passes) /\ ran = SubSeq(passes, 1, Len(ran))
            /\ \A p \in 1..Len(passes) :
                  p <= Len(ran) <=> FoundBefore(p) < call.estimated_speakers
            /\ ret.value.frame_faces = AccumulatedBoxes(Len(ran))

\* two speakers are expected, the first pass finds one box and the second
\* another, and the profile pass is not run
C31_Witness ==
    /\ Returned("detection_passes")
    /\ call.estimated_speakers = 2
    /\ call.finds[1] = 1 /\ call.finds[2] = 1 /\ call.finds[3] > 0
    /\ ret.value.ran = <<"frontal-optimized", "frontal-aggressive">>
    /\ Len(ret.value.frame_faces) = 2

\* C38: a reader that sees the status 'completed' sees a clip_data that is
\* not empty and whose captions are the cue list extracted from the
\* subtitle file, the value they keep
C38_CompletedMeansFinalCaptions ==
    (ret # None /\ ret.value.status = "completed") =>
        /\ ret.value.clip_data # [tag |-> "empty"]
        /\ ret.value.clip_data.captions = extract_caption_data(ret.value.clip_data)

====
